---- MODULE Spec2Model ----
(***************************************************************************)
(* Model of the progression / periodization engine of the workout         *)
(* progression app: the feedback trend analysis and the RIR scheduler of   *)
(* rir_progression.py, the volume adjuster and prescriber of               *)
(* progression.py, and the handlers of the Reflex page that feed them.     *)
(***************************************************************************)
EXTENDS Integers, Sequences, FiniteSets, TLC

VARIABLES
    sessions,        \* Session table: id -> [session_number, completed]
    sets,            \* Set table: rows [session_id, we_id, set_number, weight, reps, rir]
    feedback,        \* Feedback table in created_at order (oldest first)
    target_sets,     \* WorkoutExercise.target_sets, per workout-exercise id
    page_session_id, \* WorkoutState.session_id of the Reflex page
    page_target_rir, \* MuscleGroupData.target_rir cached by the page, per muscle group
    set_logged,      \* WorkoutState.set_logged: the keys (we_id, set_num) flagged True
    log_call,        \* the last log_set call: the typed input and whether it was stored
    rir_call,        \* the last get_rir_for_muscle_group call: inputs seen and value returned
    rec_call,        \* the last recommend_weights_and_reps call
    trend_in,        \* argument of the last analyze_feedback_trend call
    trend_out        \* its return value

vars == <<sessions, sets, feedback, target_sets, page_session_id,
          page_target_rir, set_logged, log_call, rir_call, rec_call, trend_in, trend_out>>

\* ------------------------------------------------------------------------
\* Python values
\* ------------------------------------------------------------------------

\* Python None for nullable integer columns (Set.rir, Feedback scores).
None == -1

\* "x or 0" for a nullable integer column.
OrZero(x) == IF x = None THEN 0 ELSE x

\* No call made yet / result discarded.
NoCall == [made |-> FALSE]

\* ------------------------------------------------------------------------
\* rir_progression.py constants
\* ------------------------------------------------------------------------

RIR_FAILURE == 0
RIR_VERY_HARD == 1
RIR_HARD == 2
RIR_MODERATE == 3
RIR_DELOAD == 4

\* Float thresholds, scaled by 10 (4.2 -> 42): an average sum/n is compared
\* as 10*sum against threshold10*n, exact for integer sums and n in 1..3.
SORENESS_LOW_x10 == 20
SORENESS_HIGH_x10 == 42
PUMP_LOW_x10 == 20
WORKLOAD_LOW_x10 == 22
WORKLOAD_HIGH_x10 == 38

LOOKBACK_SESSIONS == 3
CONSECUTIVE_HIGH_THRESHOLD == 2
CONSECUTIVE_LOW_THRESHOLD == 3

HIGH_STRESS_WORKLOAD == 4
HIGH_STRESS_SORENESS == 4
HIGH_STRESS_WORKLOAD_MIN == 3

\* ------------------------------------------------------------------------
\* analyze_feedback_trend
\* ------------------------------------------------------------------------

\* sum(f.<field> or 0 for f in feedback_list)
RECURSIVE SumField(_, _, _)
SumField(list, field, i) ==
    IF i > Len(list) THEN 0
    ELSE OrZero(list[i][field]) + SumField(list, field, i + 1)

is_high_stress(f) ==
    \/ OrZero(f.workload) >= HIGH_STRESS_WORKLOAD
    \/ /\ OrZero(f.soreness) >= HIGH_STRESS_SORENESS
       /\ OrZero(f.workload) >= HIGH_STRESS_WORKLOAD_MIN

\* Low stress with strict comparisons (< 2 for <= 2).
is_low_stress_strict(f) ==
    /\ OrZero(f.workload) < 2
    /\ OrZero(f.soreness) < 2
    /\ OrZero(f.pump) < 2

is_low_stress(f) ==
    /\ OrZero(f.workload) <= 2
    /\ OrZero(f.soreness) <= 2
    /\ OrZero(f.pump) <= 2

\* The for-loop of analyze_feedback_trend over feedback_list[i..], with the
\* counters as they stand before entry i; "break" ends it.
RECURSIVE TrendLoop(_, _, _, _)
TrendLoop(list, i, high, low) ==
    IF i > Len(list) THEN [high |-> high, low |-> low]
    ELSE IF is_high_stress(list[i]) THEN TrendLoop(list, i + 1, high + 1, 0)
    ELSE IF is_low_stress(list[i]) THEN TrendLoop(list, i + 1, 0, low + 1)
    ELSE [high |-> high, low |-> low]

\* An average sum/n kept as the exact fraction.
Avg(sum, n) == [num |-> sum, den |-> n]
AvgGE(a, t10) == 10 * a.num >= t10 * a.den
AvgLE(a, t10) == 10 * a.num <= t10 * a.den
AvgLT(a, t10) == 10 * a.num < t10 * a.den
AvgGT(a, t10) == 10 * a.num > t10 * a.den

\* The chain with the slight_push test ahead of the push_harder test.
TrendStatus_slight_first(consecutive_high, consecutive_low, avg_soreness, avg_pump, avg_workload) ==
    IF consecutive_high >= CONSECUTIVE_HIGH_THRESHOLD THEN "deload"
    ELSE IF AvgGE(avg_soreness, SORENESS_HIGH_x10) /\ AvgLE(avg_pump, PUMP_LOW_x10)
        THEN "deload"
    ELSE IF AvgLT(avg_workload, WORKLOAD_LOW_x10) /\ AvgLT(avg_soreness, SORENESS_LOW_x10)
        THEN "slight_push"
    ELSE IF consecutive_low >= CONSECUTIVE_LOW_THRESHOLD THEN "push_harder"
    ELSE IF AvgGT(avg_workload, WORKLOAD_HIGH_x10) \/ AvgGT(avg_soreness, SORENESS_HIGH_x10)
        THEN "slight_deload"
    ELSE "maintain"

\* The if/elif chain that derives status from the counters and averages.
TrendStatus(consecutive_high, consecutive_low, avg_soreness, avg_pump, avg_workload) ==
    IF consecutive_high >= CONSECUTIVE_HIGH_THRESHOLD THEN "deload"
    ELSE IF AvgGE(avg_soreness, SORENESS_HIGH_x10) /\ AvgLE(avg_pump, PUMP_LOW_x10)
        THEN "deload"
    ELSE IF consecutive_low >= CONSECUTIVE_LOW_THRESHOLD THEN "push_harder"
    ELSE IF AvgLT(avg_workload, WORKLOAD_LOW_x10) /\ AvgLT(avg_soreness, SORENESS_LOW_x10)
        THEN "slight_push"
    ELSE IF AvgGT(avg_workload, WORKLOAD_HIGH_x10) \/ AvgGT(avg_soreness, SORENESS_HIGH_x10)
        THEN "slight_deload"
    ELSE "maintain"

\* The analysis without the early return for an empty list: the status
\* chain runs on zero averages.
analyze_feedback_trend_unguarded(feedback_list) ==
    LET n == IF feedback_list = << >> THEN 1 ELSE Len(feedback_list)
        avg_s == Avg(SumField(feedback_list, "soreness", 1), n)
        avg_p == Avg(SumField(feedback_list, "pump", 1), n)
        avg_w == Avg(SumField(feedback_list, "workload", 1), n)
        c == TrendLoop(feedback_list, 1, 0, 0)
    IN  [status |-> TrendStatus(c.high, c.low, avg_s, avg_p, avg_w),
         avg_soreness |-> avg_s, avg_pump |-> avg_p, avg_workload |-> avg_w,
         consecutive_high |-> c.high, consecutive_low |-> c.low]

\* feedback_list is ordered most recent first.
analyze_feedback_trend(feedback_list) ==
    IF feedback_list = << >> THEN
        [status |-> "maintain",
         avg_soreness |-> Avg(0, 1), avg_pump |-> Avg(0, 1), avg_workload |-> Avg(0, 1),
         consecutive_high |-> 0, consecutive_low |-> 0]
    ELSE
        LET n == Len(feedback_list)
            avg_s == Avg(SumField(feedback_list, "soreness", 1), n)
            avg_p == Avg(SumField(feedback_list, "pump", 1), n)
            avg_w == Avg(SumField(feedback_list, "workload", 1), n)
            c == TrendLoop(feedback_list, 1, 0, 0)
        IN  [status |-> TrendStatus(c.high, c.low, avg_s, avg_p, avg_w),
             avg_soreness |-> avg_s, avg_pump |-> avg_p, avg_workload |-> avg_w,
             consecutive_high |-> c.high, consecutive_low |-> c.low]

\* ------------------------------------------------------------------------
\* The catalogue: workout-exercises and their exercises (plan.py)
\* ------------------------------------------------------------------------

\* Exercise.muscle_group unset (None or ""): "not muscle_group" holds.
NoMuscleGroup == ""

\* Workout-exercise ids with Exercise.name and Exercise.muscle_group
\* (EXERCISE_MUSCLE_GROUPS); id 4 is an exercise without a muscle group.
exercise(we_id) ==
    CASE we_id = 1 -> [name |-> "Cable Tricep Pushdown", muscle_group |-> "Triceps"]
      [] we_id = 2 -> [name |-> "Overhead Cable Extension", muscle_group |-> "Triceps"]
      [] we_id = 3 -> [name |-> "Sissy Squat", muscle_group |-> "Quads"]
      [] we_id = 5 -> [name |-> "Cable Curl", muscle_group |-> "Biceps"]
      [] OTHER -> [name |-> "Farmer Walk", muscle_group |-> NoMuscleGroup]

WorkoutExerciseIds == 1..5

FINISHER_NAMES ==
    {"Single-arm Chest Fly", "Sissy Squat", "Straight-arm Pulldown",
     "Incline DB Curl", "Overhead Cable Extension"}

\* EXERCISE_DEFAULT_SETS.get(name, DEFAULT_TARGET_SETS): 1 for finishers.
DEFAULT_TARGET_SETS == 4
FINISHER_DEFAULT_SETS == 1
default_target_sets(we_id) ==
    IF exercise(we_id).name \in FINISHER_NAMES THEN FINISHER_DEFAULT_SETS
    ELSE DEFAULT_TARGET_SETS

\* ------------------------------------------------------------------------
\* Store queries of rir_progression.py
\* ------------------------------------------------------------------------

\* The join Set -> WorkoutExercise -> Exercise filtered on the muscle group,
\* and Set -> Session filtered on completed == 1.
MuscleGroupSets(sess, rows, muscle_group) ==
    {s \in rows : exercise(s.we_id).muscle_group = muscle_group}

CompletedSets(sess, rows) ==
    {s \in rows : sess[s.session_id].completed = 1}

\* Feedback rows of the muscle group, most recent first, at most `limit`.
RECURSIVE NewestFirst(_, _, _, _)
NewestFirst(fb, muscle_group, i, limit) ==
    IF i = 0 \/ limit = 0 THEN << >>
    ELSE IF fb[i].muscle_group = muscle_group
        THEN <<fb[i]>> \o NewestFirst(fb, muscle_group, i - 1, limit - 1)
    ELSE NewestFirst(fb, muscle_group, i - 1, limit)

get_recent_muscle_feedback(fb, muscle_group, limit) ==
    IF muscle_group = NoMuscleGroup THEN << >>
    ELSE NewestFirst(fb, muscle_group, Len(fb), limit)

count_completed_sessions_for_muscle_group(sess, rows, muscle_group) ==
    IF muscle_group = NoMuscleGroup THEN 0
    ELSE Cardinality({s.session_id :
            s \in CompletedSets(sess, MuscleGroupSets(sess, rows, muscle_group))})

\* .limit(100) of the recent_sets query.
SET_LOOKBACK_LIMIT == 100

\* The sessions whose id the deload scan of get_sessions_since_last_deload
\* can end with (0: no marker found).  recent_sets is ordered by
\* session_number descending only, so which rows of one session fall within
\* the first 100 is the database's choice: every outcome is returned.
deload_session_ids(sess, rows, muscle_group) ==
    LET recent == {s \in CompletedSets(sess, MuscleGroupSets(sess, rows, muscle_group)) :
                       s.rir # None}
        num(s) == sess[s.session_id].session_number
        deload == {s \in recent : s.rir >= RIR_DELOAD}
    IN  IF deload = {} THEN {0}
        ELSE
            LET top == CHOOSE n \in {num(s) : s \in deload} :
                           \A s \in deload : num(s) <= n
                newer == Cardinality({s \in recent : num(s) > top})
                plain == Cardinality({s \in recent : num(s) = top /\ s.rir < RIR_DELOAD})
                ids == {s.session_id : s \in {d \in deload : num(d) = top}}
            IN  IF newer >= SET_LOOKBACK_LIMIT THEN {0}
                ELSE IF newer + plain < SET_LOOKBACK_LIMIT THEN ids
                ELSE ids \cup {0}

\* The count with the deload session itself included (>= for >).
sessions_since_inclusive(sess, rows, muscle_group, deload_session_id) ==
    IF deload_session_id # 0 THEN
        Cardinality({s.session_id :
            s \in {r \in CompletedSets(sess, MuscleGroupSets(sess, rows, muscle_group)) :
                      r.session_id >= deload_session_id}})
    ELSE count_completed_sessions_for_muscle_group(sess, rows, muscle_group)

\* get_sessions_since_last_deload once the scan ended with deload_session_id.
sessions_since(sess, rows, muscle_group, deload_session_id) ==
    IF deload_session_id # 0 THEN
        Cardinality({s.session_id :
            s \in {r \in CompletedSets(sess, MuscleGroupSets(sess, rows, muscle_group)) :
                      r.session_id > deload_session_id}})
    ELSE count_completed_sessions_for_muscle_group(sess, rows, muscle_group)

\* The values get_sessions_since_last_deload can return.
get_sessions_since_last_deload(sess, rows, muscle_group) ==
    IF muscle_group = NoMuscleGroup THEN {0}
    ELSE IF {s \in CompletedSets(sess, MuscleGroupSets(sess, rows, muscle_group)) :
                 s.rir # None} = {}
        THEN {0}
    ELSE {sessions_since(sess, rows, muscle_group, d) :
              d \in deload_session_ids(sess, rows, muscle_group)}

\* ------------------------------------------------------------------------
\* The RIR schedule and its feedback overrides
\* ------------------------------------------------------------------------

\* The schedule with each level ending one session early (< for <=).
calculate_rir_from_session_count_early(sessions_in_cycle) ==
    IF sessions_in_cycle = 0 THEN
        [rir |-> RIR_HARD, phase |-> <<"Post-Deload - Starting Fresh (RIR 2)", 0>>]
    ELSE IF sessions_in_cycle < 4 THEN
        [rir |-> RIR_HARD, phase |-> <<"Building Intensity (RIR 2)", sessions_in_cycle>>]
    ELSE IF sessions_in_cycle < 8 THEN
        [rir |-> RIR_VERY_HARD, phase |-> <<"High Intensity (RIR 1)", sessions_in_cycle - 4>>]
    ELSE
        [rir |-> RIR_FAILURE, phase |-> <<"Peak Intensity at RIR 0", sessions_in_cycle - 8>>]

\* Phase descriptions are kept as (label, k) instead of the formatted text.
calculate_rir_from_session_count(sessions_in_cycle) ==
    IF sessions_in_cycle = 0 THEN
        [rir |-> RIR_HARD, phase |-> <<"Post-Deload - Starting Fresh (RIR 2)", 0>>]
    ELSE IF sessions_in_cycle <= 4 THEN
        [rir |-> RIR_HARD, phase |-> <<"Building Intensity (RIR 2)", sessions_in_cycle>>]
    ELSE IF sessions_in_cycle <= 8 THEN
        [rir |-> RIR_VERY_HARD, phase |-> <<"High Intensity (RIR 1)", sessions_in_cycle - 4>>]
    ELSE
        [rir |-> RIR_FAILURE, phase |-> <<"Peak Intensity at RIR 0", sessions_in_cycle - 8>>]

\* The empty dict returned as analysis when there is no feedback.
EmptyAnalysis == [status |-> "none"]

\* The override with the deload forced only at peak intensity (base RIR 0).
apply_feedback_override_peak_only(base, sessions_in_cycle, analysis) ==
    IF analysis = EmptyAnalysis THEN base
    ELSE IF analysis.status = "deload" /\ base.rir = RIR_FAILURE THEN
        [rir |-> RIR_DELOAD, phase |-> <<"DELOAD (high fatigue detected)", 0>>]
    ELSE IF analysis.status = "push_harder" /\ base.rir = RIR_HARD /\ sessions_in_cycle <= 2 THEN
        [rir |-> RIR_VERY_HARD, phase |-> base.phase \o <<"Advancing early">>]
    ELSE IF analysis.status = "slight_deload" /\ base.rir = RIR_VERY_HARD THEN
        [rir |-> RIR_HARD, phase |-> base.phase \o <<"Backing off to RIR 2">>]
    ELSE base

\* The override with the early advance not limited to the first sessions.
apply_feedback_override_any_session(base, sessions_in_cycle, analysis) ==
    IF analysis = EmptyAnalysis THEN base
    ELSE IF analysis.status = "deload" THEN
        [rir |-> RIR_DELOAD, phase |-> <<"DELOAD (high fatigue detected)", 0>>]
    ELSE IF analysis.status = "push_harder" /\ base.rir = RIR_HARD THEN
        [rir |-> RIR_VERY_HARD, phase |-> base.phase \o <<"Advancing early">>]
    ELSE IF analysis.status = "slight_deload" /\ base.rir = RIR_VERY_HARD THEN
        [rir |-> RIR_HARD, phase |-> base.phase \o <<"Backing off to RIR 2">>]
    ELSE base

\* The override with the back-off to RIR 2 applied at any base RIR.
apply_feedback_override_any_base(base, sessions_in_cycle, analysis) ==
    IF analysis = EmptyAnalysis THEN base
    ELSE IF analysis.status = "deload" THEN
        [rir |-> RIR_DELOAD, phase |-> <<"DELOAD (high fatigue detected)", 0>>]
    ELSE IF analysis.status = "push_harder" /\ base.rir = RIR_HARD /\ sessions_in_cycle <= 2 THEN
        [rir |-> RIR_VERY_HARD, phase |-> base.phase \o <<"Advancing early">>]
    ELSE IF analysis.status = "slight_deload" THEN
        [rir |-> RIR_HARD, phase |-> base.phase \o <<"Backing off to RIR 2">>]
    ELSE base

\* Step 3 of get_rir_for_muscle_group: the override of the base RIR.
apply_feedback_override(base, sessions_in_cycle, analysis) ==
    IF analysis = EmptyAnalysis THEN base
    ELSE IF analysis.status = "deload" THEN
        [rir |-> RIR_DELOAD, phase |-> <<"DELOAD (high fatigue detected)", 0>>]
    ELSE IF analysis.status = "push_harder" /\ base.rir = RIR_HARD /\ sessions_in_cycle <= 2 THEN
        [rir |-> RIR_VERY_HARD, phase |-> base.phase \o <<"Advancing early">>]
    ELSE IF analysis.status = "slight_deload" /\ base.rir = RIR_VERY_HARD THEN
        [rir |-> RIR_HARD, phase |-> base.phase \o <<"Backing off to RIR 2">>]
    ELSE base

\* get_rir_for_muscle_group with sessions_in_cycle as the scan returned it:
\* what the call saw and what it returns (target_rir, phase, analysis).
rir_for_cycle(fb, muscle_group, sessions_in_cycle) ==
    LET base == calculate_rir_from_session_count(sessions_in_cycle)
        feedback_list == get_recent_muscle_feedback(fb, muscle_group, LOOKBACK_SESSIONS)
        analysis == IF feedback_list # << >> THEN analyze_feedback_trend(feedback_list)
                    ELSE EmptyAnalysis
        final == apply_feedback_override(base, sessions_in_cycle, analysis)
    IN  [made |-> TRUE, muscle_group |-> muscle_group,
         sessions_in_cycle |-> sessions_in_cycle,
         base_rir |-> base.rir, base_phase |-> base.phase,
         target_rir |-> final.rir, phase |-> final.phase, analysis |-> analysis]

\* A scheduler whose scan is not ordered: it can stop at any session count.
get_rir_for_muscle_group_unordered(sess, rows, fb, muscle_group) ==
    {rir_for_cycle(fb, muscle_group, n) :
         n \in 0..count_completed_sessions_for_muscle_group(sess, rows, muscle_group)}

\* The results get_rir_for_muscle_group can return on this store.
get_rir_for_muscle_group(sess, rows, fb, muscle_group) ==
    IF muscle_group = NoMuscleGroup THEN
        {[made |-> TRUE, muscle_group |-> muscle_group, sessions_in_cycle |-> 0,
          base_rir |-> RIR_HARD, base_phase |-> <<"Moderate Intensity", 0>>,
          target_rir |-> RIR_HARD, phase |-> <<"Moderate Intensity", 0>>,
          analysis |-> EmptyAnalysis]}
    ELSE {rir_for_cycle(fb, muscle_group, n) :
              n \in get_sessions_since_last_deload(sess, rows, muscle_group)}

\* ------------------------------------------------------------------------
\* progression.py
\* ------------------------------------------------------------------------

\* Weights are kept in hundredths of a unit (50.0 -> 5000).
DEFAULT_BASE_WEIGHT_x100 == 5000
DELOAD_WEIGHT_FLOOR_x100 == 500
DELOAD_PERCENT == 55

MIN_SETS == 1
MAX_SETS_MAIN == 10
MAX_SETS_FINISHER == 3

MIN_TARGET_REPS == 8
MAX_TARGET_REPS == 15

FATIGUE_REP_DROP_PER_SET == 1
MIN_REPS_FLOOR == 5

\* progression.py's own thresholds (integers, unlike rir_progression.py's).
SETS_SORENESS_HIGH == 4
SETS_WORKLOAD_HIGH == 4
\* limit=3 of the feedback read by adjust_sets_based_on_feedback.
SETS_FEEDBACK_LIMIT == 3

\* WorkoutExercise.target_reps, never written by the engine: the value the
\* exercise was created with, EXERCISE_DEFAULT_REPS.get(name, DEFAULT_TARGET_REPS).
DEFAULT_TARGET_REPS == 10
HIGH_REP_TARGET_REPS == 12
EXERCISE_DEFAULT_REPS_NAMES == {"Dumbbell Lateral Raise", "Cable Curl", "Incline DB Curl"}
stored_target_reps(we_id) ==
    IF exercise(we_id).name \in EXERCISE_DEFAULT_REPS_NAMES THEN HIGH_REP_TARGET_REPS
    ELSE DEFAULT_TARGET_REPS

is_finisher(we_id) == exercise(we_id).name \in FINISHER_NAMES

\* get_recent_muscle_group_feedback: no guard on an empty muscle group here.
get_recent_muscle_group_feedback(fb, muscle_group, limit) ==
    NewestFirst(fb, muscle_group, Len(fb), limit)

\* The adjustment without the finisher's early return: a finisher follows
\* the feedback up to its cap.
adjust_sets_finisher_capped(fb, we_id, stored) ==
    LET target_sets_0 == IF stored = 0 THEN DEFAULT_TARGET_SETS ELSE stored
        muscle_group == exercise(we_id).muscle_group
        fb_list == get_recent_muscle_group_feedback(fb, muscle_group, SETS_FEEDBACK_LIMIT)
        n == Len(fb_list)
        sum_s == SumField(fb_list, "soreness", 1)
        sum_p == SumField(fb_list, "pump", 1)
        sum_w == SumField(fb_list, "workload", 1)
        max_sets == IF is_finisher(we_id) THEN MAX_SETS_FINISHER ELSE MAX_SETS_MAIN
        keep == [ret |-> target_sets_0, stored |-> stored]
    IN  IF muscle_group = NoMuscleGroup THEN keep
        ELSE IF fb_list = << >> THEN keep
        ELSE IF /\ sum_s <= 2 * n
                /\ sum_p <= 2 * n
                /\ sum_w <= 2 * n
                /\ target_sets_0 < max_sets
            THEN [ret |-> target_sets_0 + 1, stored |-> target_sets_0 + 1]
        ELSE IF /\ (sum_s >= SETS_SORENESS_HIGH * n \/ sum_w >= SETS_WORKLOAD_HIGH * n)
                /\ target_sets_0 > MIN_SETS
            THEN [ret |-> target_sets_0 - 1, stored |-> target_sets_0 - 1]
        ELSE keep

\* The adjustment with strict comparisons (< 2 for <= 2, > 4 for >= 4).
adjust_sets_strict(fb, we_id, stored) ==
    LET target_sets_0 == IF stored = 0 THEN DEFAULT_TARGET_SETS ELSE stored
        muscle_group == exercise(we_id).muscle_group
        fb_list == get_recent_muscle_group_feedback(fb, muscle_group, SETS_FEEDBACK_LIMIT)
        n == Len(fb_list)
        sum_s == SumField(fb_list, "soreness", 1)
        sum_p == SumField(fb_list, "pump", 1)
        sum_w == SumField(fb_list, "workload", 1)
        max_sets == IF is_finisher(we_id) THEN MAX_SETS_FINISHER ELSE MAX_SETS_MAIN
        keep == [ret |-> target_sets_0, stored |-> stored]
    IN  IF is_finisher(we_id) THEN keep
        ELSE IF muscle_group = NoMuscleGroup THEN keep
        ELSE IF fb_list = << >> THEN keep
        ELSE IF /\ sum_s < 2 * n
                /\ sum_p < 2 * n
                /\ sum_w < 2 * n
                /\ target_sets_0 < max_sets
            THEN [ret |-> target_sets_0 + 1, stored |-> target_sets_0 + 1]
        ELSE IF /\ (sum_s > SETS_SORENESS_HIGH * n \/ sum_w > SETS_WORKLOAD_HIGH * n)
                /\ target_sets_0 > MIN_SETS
            THEN [ret |-> target_sets_0 - 1, stored |-> target_sets_0 - 1]
        ELSE keep

\* The adjustment without the floor of MIN_SETS on the removal of a set.
adjust_sets_without_floor(fb, we_id, stored) ==
    LET target_sets_0 == IF stored = 0 THEN DEFAULT_TARGET_SETS ELSE stored
        muscle_group == exercise(we_id).muscle_group
        fb_list == get_recent_muscle_group_feedback(fb, muscle_group, SETS_FEEDBACK_LIMIT)
        n == Len(fb_list)
        sum_s == SumField(fb_list, "soreness", 1)
        sum_p == SumField(fb_list, "pump", 1)
        sum_w == SumField(fb_list, "workload", 1)
        max_sets == IF is_finisher(we_id) THEN MAX_SETS_FINISHER ELSE MAX_SETS_MAIN
        keep == [ret |-> target_sets_0, stored |-> stored]
    IN  IF is_finisher(we_id) THEN keep
        ELSE IF muscle_group = NoMuscleGroup THEN keep
        ELSE IF fb_list = << >> THEN keep
        ELSE IF /\ sum_s <= 2 * n
                /\ sum_p <= 2 * n
                /\ sum_w <= 2 * n
                /\ target_sets_0 < max_sets
            THEN [ret |-> target_sets_0 + 1, stored |-> target_sets_0 + 1]
        ELSE IF sum_s >= SETS_SORENESS_HIGH * n \/ sum_w >= SETS_WORKLOAD_HIGH * n
            THEN [ret |-> target_sets_0 - 1, stored |-> target_sets_0 - 1]
        ELSE keep

\* The adjustment with the under-stimulation test leaving out the workload.
adjust_sets_ignoring_workload(fb, we_id, stored) ==
    LET target_sets_0 == IF stored = 0 THEN DEFAULT_TARGET_SETS ELSE stored
        muscle_group == exercise(we_id).muscle_group
        fb_list == get_recent_muscle_group_feedback(fb, muscle_group, SETS_FEEDBACK_LIMIT)
        n == Len(fb_list)
        sum_s == SumField(fb_list, "soreness", 1)
        sum_p == SumField(fb_list, "pump", 1)
        sum_w == SumField(fb_list, "workload", 1)
        max_sets == IF is_finisher(we_id) THEN MAX_SETS_FINISHER ELSE MAX_SETS_MAIN
        keep == [ret |-> target_sets_0, stored |-> stored]
    IN  IF is_finisher(we_id) THEN keep
        ELSE IF muscle_group = NoMuscleGroup THEN keep
        ELSE IF fb_list = << >> THEN keep
        ELSE IF /\ sum_s <= 2 * n
                /\ sum_p <= 2 * n
                /\ target_sets_0 < max_sets
            THEN [ret |-> target_sets_0 + 1, stored |-> target_sets_0 + 1]
        ELSE IF /\ (sum_s >= SETS_SORENESS_HIGH * n \/ sum_w >= SETS_WORKLOAD_HIGH * n)
                /\ target_sets_0 > MIN_SETS
            THEN [ret |-> target_sets_0 - 1, stored |-> target_sets_0 - 1]
        ELSE keep

\* adjust_sets_based_on_feedback(db, we) with we.target_sets = stored:
\* ret is the value returned, stored the value of we.target_sets afterwards.
adjust_sets_based_on_feedback(fb, we_id, stored) ==
    LET target_sets_0 == IF stored = 0 THEN DEFAULT_TARGET_SETS ELSE stored
        muscle_group == exercise(we_id).muscle_group
        fb_list == get_recent_muscle_group_feedback(fb, muscle_group, SETS_FEEDBACK_LIMIT)
        n == Len(fb_list)
        sum_s == SumField(fb_list, "soreness", 1)
        sum_p == SumField(fb_list, "pump", 1)
        sum_w == SumField(fb_list, "workload", 1)
        max_sets == IF is_finisher(we_id) THEN MAX_SETS_FINISHER ELSE MAX_SETS_MAIN
        keep == [ret |-> target_sets_0, stored |-> stored]
    IN  IF is_finisher(we_id) THEN keep
        ELSE IF muscle_group = NoMuscleGroup THEN keep
        ELSE IF fb_list = << >> THEN keep
        ELSE IF /\ sum_s <= 2 * n
                /\ sum_p <= 2 * n
                /\ sum_w <= 2 * n
                /\ target_sets_0 < max_sets
            THEN [ret |-> target_sets_0 + 1, stored |-> target_sets_0 + 1]
        ELSE IF /\ (sum_s >= SETS_SORENESS_HIGH * n \/ sum_w >= SETS_WORKLOAD_HIGH * n)
                /\ target_sets_0 > MIN_SETS
            THEN [ret |-> target_sets_0 - 1, stored |-> target_sets_0 - 1]
        ELSE keep

\* ORDER BY set_number ASC of a session's rows (equal set numbers: any order).
RECURSIVE BySetNumber(_)
BySetNumber(rows) ==
    IF rows = {} THEN << >>
    ELSE LET first == CHOOSE s \in rows : \A t \in rows : s.set_number <= t.set_number
         IN  <<first>> \o BySetNumber(rows \ {first})

\* get_last_session_sets without the filter on completed sessions.
get_last_session_sets_any_session(sess, rows, we_id) ==
    LET mine == {s \in rows : s.we_id = we_id}
    IN  IF mine = {} THEN [sid |-> 0, sets |-> << >>]
        ELSE LET last == CHOOSE s \in mine : \A t \in mine :
                             sess[t.session_id].session_number
                                 <= sess[s.session_id].session_number
             IN  [sid |-> last.session_id,
                  sets |-> BySetNumber({s \in mine : s.session_id = last.session_id})]

\* get_last_session_sets: (session id, its sets); sid 0 and << >> for (None, None).
get_last_session_sets(sess, rows, we_id) ==
    LET mine == {s \in CompletedSets(sess, rows) : s.we_id = we_id}
    IN  IF mine = {} THEN [sid |-> 0, sets |-> << >>]
        ELSE LET last == CHOOSE s \in mine : \A t \in mine :
                             sess[t.session_id].session_number
                                 <= sess[s.session_id].session_number
             IN  [sid |-> last.session_id,
                  sets |-> BySetNumber({s \in mine : s.session_id = last.session_id})]

Min2(a, b) == IF a <= b THEN a ELSE b
Max2(a, b) == IF a >= b THEN a ELSE b

\* The rep target with the RIR change taken the other way round
\* (current_rir - last_rir).
calculate_reps_rir_reversed(we_id, last_sets, current_rir) ==
    IF last_sets = << >> THEN
        (IF stored_target_reps(we_id) = 0 THEN 10 ELSE stored_target_reps(we_id))
    ELSE
        LET first_set == last_sets[1]
            last_reps == IF first_set.reps = 0 THEN 10 ELSE first_set.reps
            last_rir == IF first_set.rir # None THEN first_set.rir ELSE current_rir
            rir_change == current_rir - last_rir
        IN  Max2(Min2(last_reps + 1 + rir_change, MAX_TARGET_REPS), MIN_TARGET_REPS)

\* The rep target that ignores the stored target_reps without history.
calculate_reps_ignoring_stored(we_id, last_sets, current_rir) ==
    IF last_sets = << >> THEN DEFAULT_TARGET_REPS
    ELSE
        LET first_set == last_sets[1]
            last_reps == IF first_set.reps = 0 THEN 10 ELSE first_set.reps
            last_rir == IF first_set.rir # None THEN first_set.rir ELSE current_rir
            rir_change == last_rir - current_rir
        IN  Max2(Min2(last_reps + 1 + rir_change, MAX_TARGET_REPS), MIN_TARGET_REPS)

\* The rep target without the clamp into [MIN_TARGET_REPS, MAX_TARGET_REPS].
calculate_reps_unclamped(we_id, last_sets, current_rir) ==
    IF last_sets = << >> THEN
        (IF stored_target_reps(we_id) = 0 THEN 10 ELSE stored_target_reps(we_id))
    ELSE
        LET first_set == last_sets[1]
            last_reps == IF first_set.reps = 0 THEN 10 ELSE first_set.reps
            last_rir == IF first_set.rir # None THEN first_set.rir ELSE current_rir
            rir_change == last_rir - current_rir
        IN  last_reps + 1 + rir_change

calculate_reps_with_rir_progression(we_id, last_sets, current_rir) ==
    IF last_sets = << >> THEN
        (IF stored_target_reps(we_id) = 0 THEN 10 ELSE stored_target_reps(we_id))
    ELSE
        LET first_set == last_sets[1]
            last_reps == IF first_set.reps = 0 THEN 10 ELSE first_set.reps
            last_rir == IF first_set.rir # None THEN first_set.rir ELSE current_rir
            rir_change == last_rir - current_rir
        IN  Max2(Min2(last_reps + 1 + rir_change, MAX_TARGET_REPS), MIN_TARGET_REPS)

should_suggest_weight_increase(we_id, last_sets) ==
    LET target_reps == IF stored_target_reps(we_id) = 0 THEN 10
                       ELSE stored_target_reps(we_id)
    IN  IF last_sets = << >> THEN FALSE
        ELSE /\ last_sets[1].reps >= target_reps
             /\ target_reps >= MAX_TARGET_REPS
             /\ Len(last_sets) >= 4

\* round(x, 1) of the weight v / unit, in hundredths.  Python rounds the
\* binary double: where the decimal value lies exactly halfway between two
\* tenths the double's representation decides, so both neighbours are outcomes.
round_1(v, unit) ==
    LET step == unit \div 10
        down == (v \div step) * 10
        rem == v % step
    IN  IF 2 * rem < step THEN {down}
        ELSE IF 2 * rem > step THEN {down + 10}
        ELSE {down, down + 10}

\* The weight copied from the last set of the last session instead of the first.
copied_weight_of_last_set(last_sets) ==
    IF last_sets = << >> THEN DEFAULT_BASE_WEIGHT_x100
    ELSE IF last_sets[Len(last_sets)].weight = 0 THEN DEFAULT_BASE_WEIGHT_x100
    ELSE last_sets[Len(last_sets)].weight

\* next_weight before the deload override: copied from last_sets[0], or the default.
copied_weight(last_sets) ==
    IF last_sets = << >> THEN DEFAULT_BASE_WEIGHT_x100
    ELSE IF last_sets[1].weight = 0 THEN DEFAULT_BASE_WEIGHT_x100
    ELSE last_sets[1].weight

\* The row weight with the deload multiplier and no floor.
row_weights_without_floor(weight_x100, deload_active) ==
    IF deload_active THEN round_1(weight_x100 * DELOAD_PERCENT, 10000)
    ELSE round_1(weight_x100, 100)

\* round(float(next_weight), 1) of the rows, with next_weight =
\* max(next_weight * 0.55, 5.0) under a deload (computed in 1/10000 units).
row_weights(weight_x100, deload_active) ==
    IF deload_active
    THEN round_1(Max2(weight_x100 * DELOAD_PERCENT, DELOAD_WEIGHT_FLOOR_x100 * 100), 10000)
    ELSE round_1(weight_x100, 100)

\* The fatigue model without the floor.
set_reps_without_floor(we_id, target_reps, deload_active, i) ==
    IF is_finisher(we_id) /\ deload_active THEN target_reps
    ELSE target_reps - (i - 1) * FATIGUE_REP_DROP_PER_SET

\* The fatigue model applied to finishers under a deload as well.
set_reps_always_fatigued(we_id, target_reps, deload_active, i) ==
    Max2(target_reps - (i - 1) * FATIGUE_REP_DROP_PER_SET, MIN_REPS_FLOOR)

\* set_reps of row i (the fatigue model, flat for a finisher under a deload).
set_reps(we_id, target_reps, deload_active, i) ==
    IF is_finisher(we_id) /\ deload_active THEN target_reps
    ELSE Max2(target_reps - (i - 1) * FATIGUE_REP_DROP_PER_SET, MIN_REPS_FLOOR)

\* recommend_weights_and_reps after get_rir_for_muscle_group returned
\* current_rir: the rows, target_sets as returned and as persisted, and the
\* values the call read (target_sets_before), got from get_last_session_sets
\* (last_session) and computed (target_reps).
recommend_rows(sess, rows, fb, we_id, stored, muscle_group, current_rir) ==
    LET adj == adjust_sets_based_on_feedback(fb, we_id, stored)
        last_session == get_last_session_sets(sess, rows, we_id)
        last_sets == last_session.sets
        target_reps == calculate_reps_with_rir_progression(we_id, last_sets, current_rir)
        deload_active == current_rir >= RIR_DELOAD
        suggest_weight == should_suggest_weight_increase(we_id, last_sets)
    IN  {[made |-> TRUE, we_id |-> we_id, muscle_group |-> muscle_group,
          current_rir |-> current_rir, target_sets_before |-> stored,
          target_sets |-> adj.ret, stored |-> adj.stored, target_reps |-> target_reps,
          last_session |-> last_session,
          rows |-> [i \in 1..adj.ret |->
                       [set_number |-> i, weight |-> next_weight,
                        reps |-> set_reps(we_id, target_reps, deload_active, i),
                        done |-> FALSE, suggest |-> (i = 1 /\ suggest_weight)]]] :
            next_weight \in row_weights(copied_weight(last_sets), deload_active)}

\* The muscle_group argument as the page passes it: the exercise's name
\* when it has no muscle group.
own_muscle_group_or_name(we_id) ==
    IF exercise(we_id).muscle_group # NoMuscleGroup THEN exercise(we_id).muscle_group
    ELSE exercise(we_id).name

\* The muscle_group argument: the exercise's own when the caller passes none.
own_muscle_group(we_id) == exercise(we_id).muscle_group

\* The outcomes of recommend_weights_and_reps(db, we, muscle_group).
recommend_weights_and_reps(sess, rows, fb, we_id, stored, muscle_group) ==
    IF muscle_group # NoMuscleGroup THEN
        UNION {recommend_rows(sess, rows, fb, we_id, stored, muscle_group, r.target_rir) :
                   r \in get_rir_for_muscle_group(sess, rows, fb, muscle_group)}
    ELSE recommend_rows(sess, rows, fb, we_id, stored, muscle_group, 2)

\* ------------------------------------------------------------------------
\* The Reflex page (WorkoutState) and the store writers it calls
\* ------------------------------------------------------------------------

\* Exercises the page shows for a session (get_session_exercises).
PageExercises == {1, 3}

\* The page groups an exercise under its muscle group, or under its own
\* name when it has none.
page_muscle_group(we_id) ==
    IF exercise(we_id).muscle_group # NoMuscleGroup THEN exercise(we_id).muscle_group
    ELSE exercise(we_id).name

PageMuscleGroups == {page_muscle_group(we_id) : we_id \in PageExercises}

SessionIds(sess) == 1..Len(sess)

\* get_session_by_number: the session id, 0 for None.
get_session_by_number(sess, session_number) ==
    IF \E id \in SessionIds(sess) : sess[id].session_number = session_number
        THEN CHOOSE id \in SessionIds(sess) : sess[id].session_number = session_number
    ELSE 0

\* max_session of load_session.
max_session(sess) ==
    CHOOSE n \in {sess[id].session_number : id \in SessionIds(sess)} :
        \A id \in SessionIds(sess) : sess[id].session_number <= n

\* complete_session: mark the session completed and create the next one.
complete_session(sess, id) ==
    LET done == [sess EXCEPT ![id].completed = 1]
        next_number == sess[id].session_number + 1
    IN  IF get_session_by_number(sess, next_number) # 0 THEN done
        ELSE Append(done, [session_number |-> next_number, completed |-> 0])

\* save_muscle_group_feedback: one new Feedback row.
save_muscle_group_feedback(fb, muscle_group, soreness, pump, workload) ==
    Append(fb, [muscle_group |-> muscle_group, soreness |-> soreness,
                pump |-> pump, workload |-> workload])

\* The target RIR per muscle group that _load_session_data can cache.
page_rir_choices(sess, rows, fb) ==
    LET choices(mg) == {r.target_rir : r \in get_rir_for_muscle_group(sess, rows, fb, mg)}
    IN  {f \in [PageMuscleGroups -> UNION {choices(mg) : mg \in PageMuscleGroups}] :
            \A mg \in PageMuscleGroups : f[mg] \in choices(mg)}

\* set_logged as _load_session_data fills it: True for the rows shown (one
\* per prescribed set) that have a Set row in the session.
loaded_flags(rows, id, stored) ==
    {<<s.we_id, s.set_number>> :
        s \in {r \in rows : /\ r.session_id = id
                            /\ r.we_id \in PageExercises
                            /\ r.set_number <= (IF stored[r.we_id] = 0
                                                    THEN DEFAULT_TARGET_SETS
                                                ELSE stored[r.we_id])}}

\* _load_session_data on the store (sess, rows, fb): the page caches the
\* target RIR of each muscle group and recommend_weights_and_reps runs for
\* each exercise, persisting its target_sets; the inputs and flags of the
\* sets are rebuilt.
LoadSessionData(sess, rows, fb, id) ==
    /\ page_session_id' = id
    /\ page_target_rir' \in page_rir_choices(sess, rows, fb)
    /\ target_sets' =
           [we_id \in WorkoutExerciseIds |->
               IF we_id \in PageExercises
                   THEN adjust_sets_based_on_feedback(fb, we_id, target_sets[we_id]).stored
               ELSE target_sets[we_id]]
    /\ set_logged' = loaded_flags(rows, id, target_sets')
    /\ log_call' = NoCall
    /\ rec_call' = NoCall

\* load_session(session_num)
LoadSession(session_num) ==
    /\ get_session_by_number(sessions, session_num) # 0
    /\ LoadSessionData(sessions, sets, feedback,
                       get_session_by_number(sessions, session_num))
    /\ UNCHANGED <<sessions, sets, feedback, rir_call, trend_in, trend_out>>

\* go_to_prev_session
GoToPrevSession ==
    /\ sessions[page_session_id].session_number > 1
    /\ LoadSession(sessions[page_session_id].session_number - 1)

\* go_to_next_session: load the next session, or complete the current one,
\* which creates the next, and load that.
GoToNextSession ==
    LET session_number == sessions[page_session_id].session_number
    IN  IF session_number < max_session(sessions) THEN LoadSession(session_number + 1)
        ELSE LET after == complete_session(sessions, page_session_id)
             IN  /\ sessions' = after
                 /\ get_session_by_number(after, session_number + 1) # 0
                 /\ LoadSessionData(after, sets, feedback,
                                    get_session_by_number(after, session_number + 1))
                 /\ rir_call' = NoCall
                 /\ UNCHANGED <<sets, feedback, trend_in, trend_out>>

\* A typed weight or reps that float() / int() rejects with a ValueError.
Unparsable == -2

\* target_rir of log_set: the cached target RIR of the muscle group the
\* page shows the exercise under, 2 for an exercise it does not show.
log_set_target_rir(we_id) ==
    IF we_id \in PageExercises THEN page_target_rir[page_muscle_group(we_id)] ELSE 2

\* The Set tables after the update-or-insert of row.
upsert_set(rows, row) ==
    LET existing == {s \in rows : /\ s.session_id = row.session_id
                                  /\ s.we_id = row.we_id
                                  /\ s.set_number = row.set_number}
    IN  IF existing # {} THEN {(rows \ {old}) \cup {row} : old \in existing}
        ELSE {rows \cup {row}}

\* log_set past its checks: the row is written and the set flagged.
LogSetStored(we_id, set_num, weight, reps) ==
    /\ sets' \in upsert_set(sets, [session_id |-> page_session_id, we_id |-> we_id,
                                   set_number |-> set_num, weight |-> weight,
                                   reps |-> reps, rir |-> log_set_target_rir(we_id)])
    /\ set_logged' = set_logged \cup {<<we_id, set_num>>}
    /\ log_call' = [made |-> TRUE, we_id |-> we_id, set_num |-> set_num,
                    weight |-> weight, reps |-> reps, stored |-> TRUE]
    /\ rir_call' = NoCall
    /\ rec_call' = NoCall
    /\ UNCHANGED <<sessions, feedback, target_sets, page_session_id, page_target_rir,
                   trend_in, trend_out>>

\* log_set ended by its early return or by the ValueError handler.
LogSetRejected(we_id, set_num, weight, reps) ==
    /\ log_call' = [made |-> TRUE, we_id |-> we_id, set_num |-> set_num,
                    weight |-> weight, reps |-> reps, stored |-> FALSE]
    /\ UNCHANGED <<sessions, sets, feedback, target_sets, page_session_id,
                   page_target_rir, set_logged, rir_call, rec_call, trend_in, trend_out>>

\* log_set without the early return on weight <= 0 or reps <= 0.
LogSetUnchecked(we_id, set_num, weight, reps) ==
    IF weight = Unparsable \/ reps = Unparsable
        THEN LogSetRejected(we_id, set_num, weight, reps)
    ELSE LogSetStored(we_id, set_num, weight, reps)

\* log_set(we_id, set_num) with the typed weight (hundredths) and reps.
LogSet(we_id, set_num, weight, reps) ==
    IF weight = Unparsable \/ reps = Unparsable
        THEN LogSetRejected(we_id, set_num, weight, reps)
    ELSE IF weight <= 0 \/ reps <= 0
        THEN LogSetRejected(we_id, set_num, weight, reps)
    ELSE LogSetStored(we_id, set_num, weight, reps)

\* submit_feedback(muscle_group) with the slider values
SubmitFeedback(muscle_group, soreness, pump, workload) ==
    /\ feedback' = save_muscle_group_feedback(feedback, muscle_group,
                                              soreness, pump, workload)
    /\ rir_call' = NoCall
    /\ rec_call' = NoCall
    /\ UNCHANGED <<sessions, sets, target_sets, page_session_id, page_target_rir,
                   set_logged, log_call,
                   trend_in, trend_out>>

\* ------------------------------------------------------------------------
\* Calls of the engine's API
\* ------------------------------------------------------------------------

\* target_rir, phase, analysis = get_rir_for_muscle_group(db, muscle_group)
GetRir(muscle_group) ==
    /\ rir_call' \in get_rir_for_muscle_group(sessions, sets, feedback, muscle_group)
    /\ UNCHANGED <<sessions, sets, feedback, target_sets, page_session_id,
                   set_logged, log_call,
                   page_target_rir, rec_call, trend_in, trend_out>>

\* A call that stores the adjusted target_sets on every exercise of the
\* muscle group instead of the one it was made for.
RecommendForMuscleGroup(we_id) ==
    /\ \E r \in recommend_weights_and_reps(sessions, sets, feedback, we_id,
                                           target_sets[we_id], own_muscle_group(we_id)) :
           /\ rec_call' = r
           /\ target_sets' =
                  [other \in WorkoutExerciseIds |->
                      IF exercise(other).muscle_group = exercise(we_id).muscle_group
                          THEN r.stored
                      ELSE target_sets[other]]
    /\ UNCHANGED <<sessions, sets, feedback, page_session_id, page_target_rir,
                   set_logged, log_call,
                   rir_call, trend_in, trend_out>>

\* rec_rows = recommend_weights_and_reps(db, we)
Recommend(we_id) ==
    /\ \E r \in recommend_weights_and_reps(sessions, sets, feedback, we_id,
                                           target_sets[we_id], own_muscle_group(we_id)) :
           /\ rec_call' = r
           /\ target_sets' = [target_sets EXCEPT ![we_id] = r.stored]
    /\ UNCHANGED <<sessions, sets, feedback, page_session_id, page_target_rir,
                   set_logged, log_call,
                   rir_call, trend_in, trend_out>>

\* analyze_feedback_trend(feedback_list) on the list held in trend_in
AnalyzeTrend ==
    /\ trend_out = NoCall
    /\ trend_out' = [made |-> TRUE, ret |-> analyze_feedback_trend(trend_in)]
    /\ UNCHANGED <<sessions, sets, feedback, target_sets, page_session_id,
                   set_logged, log_call,
                   page_target_rir, rir_call, rec_call, trend_in>>

\* ------------------------------------------------------------------------
\* Bounds and inputs
\* ------------------------------------------------------------------------

\* Completed sessions of the history a run starts from.
MaxHistory == 10
\* Feedback rows submitted in a run.
MaxFeedback == 3

\* Slider values of the feedback form (1..5), as (soreness, pump, workload).
FeedbackProfiles ==
    {<<1, 1, 1>>, <<1, 3, 2>>, <<3, 3, 3>>, <<3, 3, 4>>, <<5, 1, 2>>, <<5, 5, 5>>}

\* Feedback scores: the sliders' range, and None of rows stored without one.
Scores == 1..5
NullableScores == Scores \cup {None}
FeedbackEntries(scores) == [soreness : scores, pump : scores, workload : scores]
\* Lists with a None score are drawn up to this length.
NullableLookback == LOOKBACK_SESSIONS - 1

\* ------------------------------------------------------------------------
\* Initial stores
\* ------------------------------------------------------------------------

\* rir logged in the k-th session of a history without feedback: the page
\* showed the base RIR of k - 1 sessions in the cycle.
scheduled_rir(k) == calculate_rir_from_session_count(k - 1).rir

\* h completed sessions, one Triceps set logged in each, and session h + 1 open.
history_sessions(h) ==
    [id \in 1..(h + 1) |-> [session_number |-> id,
                            completed |-> IF id <= h THEN 1 ELSE 0]]
history_sets(h) ==
    {[session_id |-> k, we_id |-> 1, set_number |-> 1, weight |-> 5000, reps |-> 10,
      rir |-> scheduled_rir(k)] : k \in 1..h}

\* The store (sess, rows, fb) with the page loaded on its last session;
\* stored is target_sets of the Triceps exercise the feedback has acted on.
InitStore(sess, rows, fb, stored) ==
    /\ sessions = sess
    /\ sets = rows
    /\ feedback = fb
    /\ target_sets = [we_id \in WorkoutExerciseIds |->
                         IF we_id = 1 THEN stored ELSE default_target_sets(we_id)]
    /\ page_session_id = Len(sess)
    /\ page_target_rir \in page_rir_choices(sess, rows, fb)
    /\ set_logged = loaded_flags(rows, Len(sess), target_sets)
    /\ log_call = NoCall
    /\ rir_call = NoCall
    /\ rec_call = NoCall
    /\ trend_out = NoCall

\* ------------------------------------------------------------------------
\* Spec: the scheduler and the prescriber called on a history, with
\* feedback being submitted
\* ------------------------------------------------------------------------

Init ==
    /\ \E h \in 0..MaxHistory : InitStore(history_sessions(h), history_sets(h), << >>, DEFAULT_TARGET_SETS)
    /\ trend_in = << >>

SubmitTricepsFeedback ==
    /\ Len(feedback) < MaxFeedback
    /\ \E f \in FeedbackProfiles : SubmitFeedback("Triceps", f[1], f[2], f[3])

Next ==
    \/ SubmitTricepsFeedback
    \/ GetRir("Triceps")
    \/ Recommend(1)

Spec == Init /\ [][Next]_vars

\* ------------------------------------------------------------------------
\* SpecTrend: analyze_feedback_trend on every list the readers can pass
\* ------------------------------------------------------------------------

InitTrend ==
    /\ InitStore(history_sessions(0), history_sets(0), << >>, DEFAULT_TARGET_SETS)
    /\ \/ \E n \in 0..LOOKBACK_SESSIONS : trend_in \in [1..n -> FeedbackEntries(Scores)]
       \/ \E n \in 1..NullableLookback :
              trend_in \in [1..n -> FeedbackEntries(NullableScores)]

NextTrend == AnalyzeTrend

SpecTrend == InitTrend /\ [][NextTrend]_vars

\* ------------------------------------------------------------------------
\* SpecCycle: the page being used session after session
\* ------------------------------------------------------------------------

\* Sessions in the store and feedback rows submitted in a page-driven run.
MaxSessions == 3
MaxCycleFeedback == 2
\* Sessions whose sets were stored without a rir.
MaxLegacy == 2

CycleProfiles == {<<3, 3, 3>>, <<5, 5, 5>>}
\* The sets logged in a run: set 1 of the Triceps exercise of the page.
CycleLoggedExercises == {1}
CycleSetNumbers == {1}

\* l completed sessions whose Triceps sets carry no rir, and session l + 1 open.
legacy_sets(l) ==
    {[session_id |-> k, we_id |-> 1, set_number |-> 1, weight |-> 5000, reps |-> 10,
      rir |-> None] : k \in 1..l}

\* A long mesocycle of h completed sessions, session h + 1 open.  Triceps:
\* session 1 logged at first_rir (4: a deload session; mixed: after a first
\* set logged at RIR 2, before the page showed the deload), then sessions
\* 2..h with per_session sets each at the RIR the schedule gave.  Quads: the
\* finisher's one set in every session, at RIR 2.
long_sets(h, per_session, first_rir, mixed) ==
    (IF mixed
        THEN {[session_id |-> 1, we_id |-> 1, set_number |-> 1, weight |-> 5000,
               reps |-> 10, rir |-> RIR_HARD],
              [session_id |-> 1, we_id |-> 1, set_number |-> 2, weight |-> 5000,
               reps |-> 10, rir |-> first_rir]}
     ELSE {[session_id |-> 1, we_id |-> 1, set_number |-> 1, weight |-> 5000,
            reps |-> 10, rir |-> first_rir]})
    \cup {[session_id |-> k, we_id |-> 1, set_number |-> n, weight |-> 5000, reps |-> 10,
           rir |-> IF first_rir >= RIR_DELOAD THEN scheduled_rir(k - 1)
                   ELSE scheduled_rir(k)] : k \in 2..h, n \in 1..per_session}
    \cup {[session_id |-> k, we_id |-> 3, set_number |-> 1, weight |-> 5000, reps |-> 10,
           rir |-> RIR_HARD] : k \in 1..h}

\* The feedback behind a long mesocycle: none without a deload session;
\* with one, the two high-stress rows that forced it and a moderate row
\* after each session since.
long_feedback(h, first_rir) ==
    IF first_rir < RIR_DELOAD THEN << >>
    ELSE [i \in 1..(h + 1) |->
             IF i <= 2
                 THEN [muscle_group |-> "Triceps", soreness |-> 5, pump |-> 5, workload |-> 5]
             ELSE [muscle_group |-> "Triceps", soreness |-> 3, pump |-> 3, workload |-> 3]]

\* Sessions and sets per session that put the marker just inside and just
\* outside the 100 sets the scan reads.
LongSessions == 11..12
LongSetsPerSession == 9..10

InitCycle ==
    /\ trend_in = << >>
    /\ \/ \E l \in 0..MaxLegacy :
              InitStore(history_sessions(l), legacy_sets(l), << >>, DEFAULT_TARGET_SETS)
       \/ \E h \in LongSessions, n \in LongSetsPerSession,
             first_rir \in {RIR_HARD, RIR_DELOAD}, mixed \in BOOLEAN,
             stored \in MIN_SETS..DEFAULT_TARGET_SETS :
              /\ first_rir < RIR_DELOAD => stored = DEFAULT_TARGET_SETS
              /\ InitStore(history_sessions(h), long_sets(h, n, first_rir, mixed),
                           long_feedback(h, first_rir), stored)

\* The page is driven on stores of at most MaxSessions sessions; a longer
\* store is only read.
ReloadPage ==
    /\ Len(sessions) <= MaxSessions
    /\ LoadSession(sessions[page_session_id].session_number)

CycleGoToPrevSession ==
    /\ Len(sessions) <= MaxSessions
    /\ GoToPrevSession

CycleGoToNextSession ==
    /\ Len(sessions) <= MaxSessions
    /\ \/ sessions[page_session_id].session_number < max_session(sessions)
       \/ Len(sessions) < MaxSessions
    /\ GoToNextSession

CycleLogSet ==
    /\ Len(sessions) <= MaxSessions
    /\ \E we_id \in CycleLoggedExercises, set_num \in CycleSetNumbers :
           LogSet(we_id, set_num, 5000, 10)

CycleSubmitFeedback ==
    /\ Len(sessions) <= MaxSessions
    /\ Len(feedback) < MaxCycleFeedback
    /\ \E f \in CycleProfiles : SubmitFeedback("Triceps", f[1], f[2], f[3])

CycleGetRir == \E mg \in PageMuscleGroups : GetRir(mg)

NextCycle ==
    \/ ReloadPage
    \/ CycleGoToPrevSession
    \/ CycleGoToNextSession
    \/ CycleLogSet
    \/ CycleSubmitFeedback
    \/ CycleGetRir

SpecCycle == InitCycle /\ [][NextCycle]_vars

\* ------------------------------------------------------------------------
\* SpecPrescribe: recommend_weights_and_reps called for every exercise on
\* stores with drawn feedback and drawn last sessions
\* ------------------------------------------------------------------------

\* Slider values (soreness, pump, workload) of the drawn feedback rows: low,
\* pump alone above 2, moderate, soreness alone high, workload alone high,
\* and high.
PrescribeProfiles ==
    {<<1, 1, 1>>, <<2, 3, 2>>, <<3, 3, 3>>, <<4, 1, 1>>, <<1, 1, 4>>, <<5, 5, 5>>}
\* The profiles of the lists one row longer than the window read.
LongListProfiles == {<<1, 1, 1>>, <<5, 5, 5>>}

\* Feedback rows of a muscle group, oldest first, from their slider values.
feedback_rows(muscle_group, scores) ==
    [i \in 1..Len(scores) |->
        [muscle_group |-> muscle_group, soreness |-> scores[i][1],
         pump |-> scores[i][2], workload |-> scores[i][3]]]

\* What log_set and the Log button can have stored in the first set of a
\* last session: the weight typed (hundredths: 8, 51, 52.25, 100), the
\* reps typed, and the target RIR the page showed (None: a row stored
\* before the rir column existed).
LoggedWeights == {800, 5100, 5225, 10000}
LoggedReps == {7, 12, 15}
LoggedRirs == {None, RIR_FAILURE, RIR_HARD, RIR_DELOAD}
\* Completed sessions of the exercise: RIR 2, RIR 1 and RIR 0 of the schedule.
PrescribeHistories == {1, 5, 9}

\* target_sets a finisher can be stored with: 1 as the plan creates it, up
\* to the finisher cap for rows stored before finishers were pinned.
FinisherStoredSets == MIN_SETS..MAX_SETS_FINISHER

\* h completed sessions of exercise we_id, session h + 1 open: sessions
\* before the last hold one set logged at the scheduled RIR, the last
\* session holds `first` as its set 1.  With full, the last session has
\* sets 2 to 4 with other values, the open session has a set logged
\* already, and another exercise has a set in the first session only.
other_exercise(we_id) == (we_id % Cardinality(WorkoutExerciseIds)) + 1
prescribe_sets(we_id, h, first, full) ==
    {[session_id |-> k, we_id |-> we_id, set_number |-> 1, weight |-> 5000, reps |-> 10,
      rir |-> IF first.rir = None THEN None ELSE scheduled_rir(k)] : k \in 1..(h - 1)}
    \cup {[session_id |-> h, we_id |-> we_id, set_number |-> 1, weight |-> first.weight,
           reps |-> first.reps, rir |-> first.rir]}
    \cup (IF full
          THEN {[session_id |-> h, we_id |-> we_id, set_number |-> 2,
                 weight |-> first.weight + 250, reps |-> first.reps + 2, rir |-> first.rir],
                [session_id |-> h, we_id |-> we_id, set_number |-> 3,
                 weight |-> first.weight + 250, reps |-> first.reps + 1, rir |-> first.rir],
                [session_id |-> h, we_id |-> we_id, set_number |-> 4,
                 weight |-> first.weight + 500, reps |-> first.reps, rir |-> first.rir],
                [session_id |-> h + 1, we_id |-> we_id, set_number |-> 1,
                 weight |-> first.weight + 500, reps |-> first.reps + 3, rir |-> RIR_HARD],
                [session_id |-> 1, we_id |-> other_exercise(we_id), set_number |-> 1,
                 weight |-> 5000, reps |-> 10,
                 rir |-> IF first.rir = None THEN None ELSE scheduled_rir(1)]}
          ELSE {})

\* The feedback behind such a history: two high rows now (high), or none;
\* a last session logged at the deload RIR had two high rows behind it,
\* followed by moderate ones.
prescribe_feedback(muscle_group, first_rir, high) ==
    IF muscle_group = NoMuscleGroup THEN << >>
    ELSE IF high THEN feedback_rows(muscle_group, <<(<<5, 5, 5>>), (<<5, 5, 5>>)>>)
    ELSE IF first_rir = RIR_DELOAD
        THEN feedback_rows(muscle_group, <<(<<5, 5, 5>>), (<<5, 5, 5>>), (<<3, 3, 3>>),
                                           (<<3, 3, 3>>), (<<3, 3, 3>>)>>)
    ELSE << >>

\* The store (sess, rows, fb) with target_sets as stored per exercise class.
InitPrescribeStore(sess, rows, fb, main_sets, finisher_sets) ==
    /\ sessions = sess
    /\ sets = rows
    /\ feedback = fb
    /\ target_sets = [we_id \in WorkoutExerciseIds |->
                         IF is_finisher(we_id) THEN finisher_sets ELSE main_sets]
    /\ page_session_id = Len(sess)
    /\ page_target_rir \in page_rir_choices(sess, rows, fb)
    /\ set_logged = loaded_flags(rows, Len(sess), target_sets)
    /\ log_call = NoCall
    /\ rir_call = NoCall
    /\ rec_call = NoCall
    /\ trend_out = NoCall
    /\ trend_in = << >>

\* target_sets as stored (main exercises, finishers): every value of one
\* class beside the plan's default of the other.
StoredSets ==
    {<<n, FINISHER_DEFAULT_SETS>> : n \in MIN_SETS..MAX_SETS_MAIN}
    \cup {<<DEFAULT_TARGET_SETS, n>> : n \in FinisherStoredSets}

\* No history, every Triceps feedback list of up to 3 rows (and lists of 4).
InitVolume ==
    \E stored \in StoredSets :
      LET main_sets == stored[1]
          finisher_sets == stored[2]
      IN
        \/ \E n \in 0..SETS_FEEDBACK_LIMIT : \E scores \in [1..n -> PrescribeProfiles] :
               InitPrescribeStore(history_sessions(0), {},
                                  feedback_rows("Triceps", scores), main_sets, finisher_sets)
        \/ \E scores \in [1..(SETS_FEEDBACK_LIMIT + 1) -> LongListProfiles] :
               InitPrescribeStore(history_sessions(0), {},
                                  feedback_rows("Triceps", scores), main_sets, finisher_sets)

\* One exercise with a history whose last session is drawn; its target_sets
\* is any value its class can be stored with (4 for a main exercise).
InitHistory ==
    \E we_id \in WorkoutExerciseIds, h \in PrescribeHistories, full \in BOOLEAN, high \in BOOLEAN :
        \E first \in [weight : LoggedWeights, reps : LoggedReps, rir : LoggedRirs] :
            \E stored \in {st \in StoredSets : /\ st[1] = DEFAULT_TARGET_SETS
                                               /\ is_finisher(we_id)
                                                  \/ st[2] = FINISHER_DEFAULT_SETS} :
                InitPrescribeStore(history_sessions(h), prescribe_sets(we_id, h, first, full),
                                   prescribe_feedback(exercise(we_id).muscle_group,
                                                      first.rir, high),
                                   stored[1], stored[2])

InitPrescribe == InitVolume \/ InitHistory

NextPrescribe == \E we_id \in WorkoutExerciseIds : Recommend(we_id)

SpecPrescribe == InitPrescribe /\ [][NextPrescribe]_vars

\* ------------------------------------------------------------------------
\* SpecUngrouped: the engine called for an exercise without a muscle group
\* ------------------------------------------------------------------------

UngroupedExercises ==
    {we_id \in WorkoutExerciseIds : exercise(we_id).muscle_group = NoMuscleGroup}

\* Feedback rows the page stores under the exercise's name in a run.
MaxUngroupedFeedback == 2
UngroupedProfiles == {<<1, 1, 1>>, <<5, 5, 5>>}
\* target_sets the ungrouped exercise is stored with.
UngroupedStoredSets == {MIN_SETS, DEFAULT_TARGET_SETS, MAX_SETS_MAIN}

\* An ungrouped exercise with no history or a drawn one, beside Triceps
\* feedback (none, or two high rows).
InitUngrouped ==
    \E we_id \in UngroupedExercises, high \in BOOLEAN, stored \in UngroupedStoredSets :
        \/ InitPrescribeStore(history_sessions(0), {},
                              prescribe_feedback("Triceps", None, high),
                              stored, FINISHER_DEFAULT_SETS)
        \/ \E h \in PrescribeHistories, full \in BOOLEAN :
               \E first \in [weight : LoggedWeights, reps : LoggedReps, rir : LoggedRirs] :
                   InitPrescribeStore(history_sessions(h),
                                      prescribe_sets(we_id, h, first, full),
                                      prescribe_feedback("Triceps", None, high),
                                      stored, FINISHER_DEFAULT_SETS)

\* submit_feedback for the group the page shows the exercise under.
UngroupedSubmitFeedback ==
    \E we_id \in UngroupedExercises :
        /\ Len(SelectSeq(feedback, LAMBDA f : f.muscle_group = page_muscle_group(we_id)))
               < MaxUngroupedFeedback
        /\ \E f \in UngroupedProfiles :
               SubmitFeedback(page_muscle_group(we_id), f[1], f[2], f[3])

UngroupedRecommend == \E we_id \in UngroupedExercises : Recommend(we_id)

UngroupedGetRir == GetRir(NoMuscleGroup)

NextUngrouped == UngroupedSubmitFeedback \/ UngroupedRecommend \/ UngroupedGetRir

SpecUngrouped == InitUngrouped /\ [][NextUngrouped]_vars

\* ------------------------------------------------------------------------
\* SpecPeak: the page being used around the peak of a mesocycle
\* ------------------------------------------------------------------------

\* Completed sessions a run starts from, and sessions the store can hold.
PeakHistories == 8..9
MaxPeakSessions == 11
\* Feedback rows in the store at the start, and rows submitted in a run.
PeakStartFeedback == 3
MaxPeakFeedback == 2
PeakProfiles == {<<3, 3, 3>>, <<5, 5, 5>>}

\* Session 1 was a deload session (its set logged at RIR 4), or the history
\* holds no deload at all.
peak_sets(h, with_deload) ==
    IF with_deload THEN long_sets(h, 1, RIR_DELOAD, FALSE) ELSE history_sets(h)

\* The last rows submitted before the run: the two high-stress rows that
\* forced the deload and a moderate one, or three moderate ones.
peak_feedback(with_deload) ==
    [i \in 1..PeakStartFeedback |->
        IF with_deload /\ i <= 2
            THEN [muscle_group |-> "Triceps", soreness |-> 5, pump |-> 5, workload |-> 5]
        ELSE [muscle_group |-> "Triceps", soreness |-> 3, pump |-> 3, workload |-> 3]]

InitPeak ==
    /\ trend_in = << >>
    /\ \E h \in PeakHistories, with_deload \in BOOLEAN :
           InitStore(history_sessions(h), peak_sets(h, with_deload),
                     peak_feedback(with_deload), DEFAULT_TARGET_SETS)

PeakGoToNextSession ==
    /\ \/ sessions[page_session_id].session_number < max_session(sessions)
       \/ Len(sessions) < MaxPeakSessions
    /\ GoToNextSession

PeakLogSet == LogSet(1, 1, 5000, 10)

PeakSubmitFeedback ==
    /\ Len(feedback) < PeakStartFeedback + MaxPeakFeedback
    /\ \E f \in PeakProfiles : SubmitFeedback("Triceps", f[1], f[2], f[3])

PeakGetRir == GetRir("Triceps")

NextPeak ==
    \/ PeakGoToNextSession
    \/ PeakLogSet
    \/ PeakSubmitFeedback
    \/ PeakGetRir

SpecPeak == InitPeak /\ [][NextPeak]_vars

\* ------------------------------------------------------------------------
\* SpecVolume: volume adjustments interleaved with feedback submissions
\* ------------------------------------------------------------------------

\* Feedback rows submitted in a run.
MaxVolumeFeedback == 2
\* The main lifts of the muscle group the feedback is given for.
VolumeExercises == {we_id \in WorkoutExerciseIds :
                        exercise(we_id).muscle_group = "Triceps" /\ ~is_finisher(we_id)}

\* The first Triceps lift stored with any target_sets of MIN_SETS..MAX_SETS_MAIN.
InitVolumeRun ==
    /\ trend_in = << >>
    /\ \E stored \in MIN_SETS..MAX_SETS_MAIN :
           InitStore(history_sessions(0), history_sets(0), << >>, stored)

VolumeSubmitFeedback ==
    /\ Len(feedback) < MaxVolumeFeedback
    /\ \E f \in FeedbackProfiles : SubmitFeedback("Triceps", f[1], f[2], f[3])

VolumeRecommend == \E we_id \in VolumeExercises : Recommend(we_id)

\* The page reloads its session: every exercise it shows is adjusted.
VolumeLoadSession == LoadSession(sessions[page_session_id].session_number)

NextVolume == VolumeSubmitFeedback \/ VolumeRecommend \/ VolumeLoadSession

SpecVolume == InitVolumeRun /\ [][NextVolume]_vars

\* ------------------------------------------------------------------------
\* SpecAgree: the scheduler and the volume adjustment on the same feedback
\* ------------------------------------------------------------------------

\* Scores of the stores of LOOKBACK_SESSIONS rows: for soreness and
\* workload None and the values around the thresholds of the high-stress
\* and under-stimulation tests, for pump a low and a high value.
AgreeScores == {None, 2, 3, 4}
AgreePumps == {2, 4}

\* The feedback table holding the rows of `entries` for the muscle group.
agree_feedback(muscle_group, entries) ==
    [i \in 1..Len(entries) |->
        [muscle_group |-> muscle_group, soreness |-> entries[i].soreness,
         pump |-> entries[i].pump, workload |-> entries[i].workload]]

\* A store of 1 to 3 Triceps feedback rows and no session history.
InitAgree ==
    /\ trend_in = << >>
    /\ \E entries \in UNION {[1..n -> FeedbackEntries(NullableScores)] :
                                 n \in 1..NullableLookback}
                      \cup [1..LOOKBACK_SESSIONS ->
                             [soreness : AgreeScores, pump : AgreePumps,
                              workload : AgreeScores]] :
           InitStore(history_sessions(0), history_sets(0),
                     agree_feedback("Triceps", entries), DEFAULT_TARGET_SETS)

\* One call of each function on the store.
AgreeGetRir ==
    /\ rir_call = NoCall
    /\ GetRir("Triceps")

AgreeRecommend ==
    /\ rec_call = NoCall
    /\ Recommend(1)

NextAgree == AgreeGetRir \/ AgreeRecommend

SpecAgree == InitAgree /\ [][NextAgree]_vars

\* ------------------------------------------------------------------------
\* SpecLog: sets being logged on the page
\* ------------------------------------------------------------------------

\* Feedback rows submitted in a run.
MaxLogFeedback == 2
\* The sets logged: the first two of the Triceps lift.
LogExercises == {1}
LogSetNumbers == {1, 2}
\* What is typed: weights in hundredths, reps; zero, negative and unparsable
\* values among them.
TypedWeights == {Unparsable, 0, 5000, 5250}
TypedReps == {Unparsable, -1, 10}

\* One completed session with its first Triceps set logged, and the page
\* loaded on the open second one.
InitLog ==
    /\ trend_in = << >>
    /\ InitStore(history_sessions(1), history_sets(1), << >>, DEFAULT_TARGET_SETS)

\* log_set on a row the page shows.
LogLogSet ==
    \E we_id \in LogExercises, set_num \in LogSetNumbers :
        /\ set_num <= target_sets[we_id]
        /\ \E weight \in TypedWeights, reps \in TypedReps :
               LogSet(we_id, set_num, weight, reps)

LogSubmitFeedback ==
    /\ Len(feedback) < MaxLogFeedback
    /\ SubmitFeedback("Triceps", 5, 5, 5)

LogReload == LoadSession(sessions[page_session_id].session_number)

\* The page goes back to the completed session, and forward again.
LogGoToPrevSession == GoToPrevSession

LogGoToNextSession ==
    /\ sessions[page_session_id].session_number < max_session(sessions)
    /\ GoToNextSession

NextLog ==
    \/ LogLogSet
    \/ LogSubmitFeedback
    \/ LogReload
    \/ LogGoToPrevSession
    \/ LogGoToNextSession

SpecLog == InitLog /\ [][NextLog]_vars

\* ------------------------------------------------------------------------
\* Claims about analyze_feedback_trend (SpecTrend)
\* ------------------------------------------------------------------------

\* Length of the unbroken run of high-stress (low-stress) entries from
\* list[i] on.
RECURSIVE HighStreak(_, _)
HighStreak(list, i) ==
    IF i > Len(list) THEN 0
    ELSE IF is_high_stress(list[i]) THEN 1 + HighStreak(list, i + 1)
    ELSE 0
RECURSIVE LowStreak(_, _)
LowStreak(list, i) ==
    IF i > Len(list) THEN 0
    ELSE IF is_low_stress(list[i]) THEN 1 + LowStreak(list, i + 1)
    ELSE 0

\* C3: consecutive_high is the length of the unbroken streak of high-stress
\* entries that starts at the most recent entry of the list, and
\* consecutive_low the same for low-stress entries.
C3_CountersAreLeadingStreaks ==
    trend_out.made =>
        /\ trend_out.ret.consecutive_high = HighStreak(trend_in, 1)
        /\ trend_out.ret.consecutive_low = LowStreak(trend_in, 1)

\* C4: for a non-empty list the status follows the priority chain
\* consecutive_high >= 2 -> deload; avg_soreness >= 4.2 and avg_pump <= 2.0
\* -> deload; consecutive_low >= 3 -> push_harder; avg_workload < 2.2 and
\* avg_soreness < 2.0 -> slight_push; avg_workload > 3.8 or avg_soreness >
\* 4.2 -> slight_deload; else maintain, the averages being taken over the
\* list with a missing score counted as 0.
C4_StatusPriority ==
    (trend_out.made /\ trend_in # << >>) =>
        LET n == Len(trend_in)
            score(i, field) == IF trend_in[i][field] = None THEN 0 ELSE trend_in[i][field]
            total(field) ==
                IF n = 1 THEN score(1, field)
                ELSE IF n = 2 THEN score(1, field) + score(2, field)
                ELSE score(1, field) + score(2, field) + score(3, field)
            soreness == total("soreness")
            pump == total("pump")
            workload == total("workload")
            r == trend_out.ret
        IN  r.status =
                IF r.consecutive_high >= 2 THEN "deload"
                ELSE IF 10 * soreness >= 42 * n /\ 10 * pump <= 20 * n THEN "deload"
                ELSE IF r.consecutive_low >= 3 THEN "push_harder"
                ELSE IF 10 * workload < 22 * n /\ 10 * soreness < 20 * n THEN "slight_push"
                ELSE IF 10 * workload > 38 * n \/ 10 * soreness > 42 * n
                    THEN "slight_deload"
                ELSE "maintain"

\* Three low-stress entries: push_harder wins over slight_push, whose test
\* the averages pass as well.
C4_Witness ==
    /\ trend_out.made
    /\ Len(trend_in) = 3
    /\ trend_out.ret.consecutive_low = 3
    /\ trend_out.ret.status = "push_harder"
    /\ AvgLT(trend_out.ret.avg_workload, WORKLOAD_LOW_x10)
    /\ AvgLT(trend_out.ret.avg_soreness, SORENESS_LOW_x10)

\* ------------------------------------------------------------------------
\* Claims about the scheduler and the prescriber on a history (Spec)
\* ------------------------------------------------------------------------

\* C1: a second call of recommend_weights_and_reps for the same exercise,
\* with the sets, sessions and feedback unchanged since the first, persists
\* and returns the same target_sets and the same number of rows.
C1_RecommendIdempotent ==
    [][(/\ rec_call.made
        /\ rec_call'.made
        /\ rec_call'.we_id = rec_call.we_id
        /\ UNCHANGED <<sessions, sets, feedback>>)
       => /\ rec_call'.target_sets = rec_call.target_sets
          /\ Len(rec_call'.rows) = Len(rec_call.rows)
          /\ target_sets'[rec_call.we_id] = target_sets[rec_call.we_id]]_vars

\* C2: when the two most recent feedback entries of the muscle group have
\* workload 5 and soreness 5, get_rir_for_muscle_group returns RIR 4,
\* whatever N and whatever the older entries.
C2_TwoHighEntriesForceDeload ==
    (/\ rir_call.made
     /\ Len(get_recent_muscle_feedback(feedback, rir_call.muscle_group, 2)) = 2
     /\ \A f \in {get_recent_muscle_feedback(feedback, rir_call.muscle_group, 2)[i] :
                      i \in 1..2} : f.workload = 5 /\ f.soreness = 5)
    => rir_call.target_rir = 4

C9_Table(n) == IF n <= 4 THEN 2 ELSE IF n <= 8 THEN 1 ELSE 0

\* C9: the base RIR is 2 for N = 0 and N in 1..4, 1 for N in 5..8 and 0 for
\* N >= 9, and no session count below N has a lower base RIR.
C9_BaseRirSchedule ==
    rir_call.made =>
        /\ rir_call.base_rir = C9_Table(rir_call.sessions_in_cycle)
        /\ \A m \in 0..rir_call.sessions_in_cycle :
               /\ calculate_rir_from_session_count(m).rir = C9_Table(m)
               /\ calculate_rir_from_session_count(m).rir >= rir_call.base_rir

\* The schedule read at its last boundary and beyond.
C9_Witness ==
    /\ rir_call.made
    /\ rir_call.sessions_in_cycle >= 9
    /\ rir_call.base_rir = 0
    /\ calculate_rir_from_session_count(8).rir = 1

\* C10: with a status other than deload the base RIR is changed in two cases
\* only: push_harder at base RIR 2 with N <= 2 gives 1, slight_deload at
\* base RIR 1 gives 2; otherwise RIR and phase are the base's.
C10_OnlyTwoOverrides ==
    (rir_call.made /\ rir_call.analysis.status # "deload") =>
        IF /\ rir_call.analysis.status = "push_harder"
           /\ rir_call.base_rir = 2
           /\ rir_call.sessions_in_cycle <= 2
            THEN rir_call.target_rir = 1
        ELSE IF rir_call.analysis.status = "slight_deload" /\ rir_call.base_rir = 1
            THEN rir_call.target_rir = 2
        ELSE /\ rir_call.target_rir = rir_call.base_rir
             /\ rir_call.phase = rir_call.base_phase

\* The early advance: push_harder within the first two sessions of a cycle
\* turns the base RIR 2 into RIR 1.
C10_Witness ==
    /\ rir_call.made
    /\ rir_call.analysis.status = "push_harder"
    /\ rir_call.base_rir = 2
    /\ rir_call.sessions_in_cycle \in 1..2
    /\ rir_call.target_rir = 1
    /\ rir_call.phase # rir_call.base_phase

\* ------------------------------------------------------------------------
\* Claims about the mesocycle position (SpecCycle)
\* ------------------------------------------------------------------------

\* Completed-session sets of the muscle group, and those logged as a deload.
CompletedSetsOf(muscle_group) ==
    {s \in sets : /\ exercise(s.we_id).muscle_group = muscle_group
                  /\ sessions[s.session_id].completed = 1}
DeloadSetsOf(muscle_group) ==
    {s \in CompletedSetsOf(muscle_group) : s.rir # None /\ s.rir >= 4}
SessionNumbersOf(rows) == {sessions[s.session_id].session_number : s \in rows}

\* session_number of the marker session: the most recently numbered
\* completed session holding a deload set of the muscle group.
MarkerNumber(muscle_group) ==
    CHOOSE n \in SessionNumbersOf(DeloadSetsOf(muscle_group)) :
        \A m \in SessionNumbersOf(DeloadSetsOf(muscle_group)) : m <= n

\* Distinct completed sessions of the muscle group numbered after the marker.
SessionsAfterMarker(muscle_group) ==
    Cardinality({n \in SessionNumbersOf(CompletedSetsOf(muscle_group)) :
                     n > MarkerNumber(muscle_group)})

\* C6: once a deload session of the muscle group is completed and is its
\* latest completed session, N is 0 and get_rir_for_muscle_group returns
\* RIR 2.
C6_RestartAfterDeload ==
    (/\ rir_call.made
     /\ DeloadSetsOf(rir_call.muscle_group) # {}
     /\ SessionsAfterMarker(rir_call.muscle_group) = 0)
    => /\ rir_call.sessions_in_cycle = 0
       /\ rir_call.target_rir = 2

\* C7: without a completed-session set at rir >= 4, N is the number of
\* distinct completed sessions holding a set of the muscle group.
C7_NoMarkerCountsAll ==
    (rir_call.made /\ DeloadSetsOf(rir_call.muscle_group) = {})
    => rir_call.sessions_in_cycle =
           Cardinality(SessionNumbersOf(CompletedSetsOf(rir_call.muscle_group)))

\* C8 as stated: with a deload marker, N is the number of distinct completed
\* sessions of the muscle group numbered after the marker session.
C8_CountsAfterMarker ==
    (rir_call.made /\ DeloadSetsOf(rir_call.muscle_group) # {})
    => rir_call.sessions_in_cycle = SessionsAfterMarker(rir_call.muscle_group)

\* The scan reads the 100 most recently numbered completed-session sets of
\* the muscle group that carry a rir: the marker session's sets are all
\* among them.
MarkerWithinScan(muscle_group) ==
    Cardinality({s \in CompletedSetsOf(muscle_group) :
                    /\ s.rir # None
                    /\ sessions[s.session_id].session_number
                           >= MarkerNumber(muscle_group)}) <= 100

\* C8 amended: with a deload marker whose session lies within the 100 sets
\* the scan reads, N is the number of distinct completed sessions of the
\* muscle group numbered after the marker session; sets of sessions that
\* are not completed do not count.
C8_CountsAfterMarkerWithinScan ==
    (/\ rir_call.made
     /\ DeloadSetsOf(rir_call.muscle_group) # {}
     /\ MarkerWithinScan(rir_call.muscle_group))
    => rir_call.sessions_in_cycle = SessionsAfterMarker(rir_call.muscle_group)

\* A marker session followed by a completed session, with a set of the
\* muscle group logged in a session that is not completed.
C8_Witness ==
    /\ rir_call.made
    /\ DeloadSetsOf(rir_call.muscle_group) # {}
    /\ MarkerWithinScan(rir_call.muscle_group)
    /\ rir_call.sessions_in_cycle >= 1
    /\ \E s \in sets : /\ exercise(s.we_id).muscle_group = rir_call.muscle_group
                       /\ sessions[s.session_id].completed = 0

\* ------------------------------------------------------------------------
\* Claims about the scheduler's purity and the prescriber (progression.py)
\* ------------------------------------------------------------------------

FeedbackOf(muscle_group) ==
    SelectSeq(feedback, LAMBDA f : f.muscle_group = muscle_group)
RecentFeedbackOf(muscle_group) ==
    LET rows == FeedbackOf(muscle_group)
    IN  SubSeq(rows, Max2(1, Len(rows) - 2), Len(rows))
RECURSIVE ScoreSum(_, _)
ScoreSum(rows, field) ==
    IF rows = << >> THEN 0 ELSE rows[1][field] + ScoreSum(Tail(rows), field)

\* C12: for a finisher exercise the volume adjustment returns the
\* exercise's current target_sets unchanged and persists no change,
\* whatever the feedback of the muscle group is.
C12_FinisherSetsUnchanged ==
    (rec_call.made /\ is_finisher(rec_call.we_id))
    => /\ rec_call.target_sets = rec_call.target_sets_before
       /\ target_sets[rec_call.we_id] = rec_call.target_sets_before

\* A finisher above the minimum called with high feedback: a main lift
\* would have lost a set.
C12_Witness ==
    /\ rec_call.made
    /\ is_finisher(rec_call.we_id)
    /\ LET recent == RecentFeedbackOf(rec_call.muscle_group)
       IN  /\ Len(recent) = 3
           /\ ScoreSum(recent, "soreness") >= 4 * Len(recent)
           /\ rec_call.target_sets_before = 2

\* C13: for a non-finisher exercise with at least one feedback entry of
\* its muscle group, one adjustment returns target_sets + 1 when the
\* averages over the up-to-3 most recent entries satisfy soreness <= 2,
\* pump <= 2, workload <= 2 and target_sets < 10; otherwise target_sets - 1
\* when average soreness >= 4 or average workload >= 4 and target_sets > 1;
\* otherwise target_sets; the result is within 1 of the input and is the
\* value persisted.
C13_SetsFollowFeedback ==
    (/\ rec_call.made
     /\ ~is_finisher(rec_call.we_id)
     /\ FeedbackOf(exercise(rec_call.we_id).muscle_group) # << >>)
    => LET recent == RecentFeedbackOf(exercise(rec_call.we_id).muscle_group)
           n == Len(recent)
           before == rec_call.target_sets_before
           low == /\ ScoreSum(recent, "soreness") <= 2 * n
                  /\ ScoreSum(recent, "pump") <= 2 * n
                  /\ ScoreSum(recent, "workload") <= 2 * n
           high == \/ ScoreSum(recent, "soreness") >= 4 * n
                   \/ ScoreSum(recent, "workload") >= 4 * n
           expected == IF low /\ before < 10 THEN before + 1
                       ELSE IF high /\ before > 1 THEN before - 1
                       ELSE before
       IN  /\ rec_call.target_sets = expected
           /\ rec_call.target_sets - before \in {-1, 0, 1}
           /\ target_sets[rec_call.we_id] = rec_call.target_sets

\* A set was added on averages of exactly 2 over the 3 most recent of 4
\* entries, the oldest of them a high one.
C13_Witness ==
    /\ rec_call.made
    /\ ~is_finisher(rec_call.we_id)
    /\ LET rows == FeedbackOf(exercise(rec_call.we_id).muscle_group)
       IN  /\ Len(rows) = 4
           /\ rows[1].soreness = 5
           /\ ScoreSum(RecentFeedbackOf(exercise(rec_call.we_id).muscle_group), "soreness") = 3
    /\ rec_call.target_sets = rec_call.target_sets_before + 1

\* The sets of an exercise logged in completed sessions, those of its most
\* recent completed session, and the lowest-numbered set among them.
HistoryOf(we_id) ==
    {s \in sets : s.we_id = we_id /\ sessions[s.session_id].completed = 1}
LastSessionSetsOf(we_id) ==
    {s \in HistoryOf(we_id) :
        \A t \in HistoryOf(we_id) :
            sessions[t.session_id].session_number <= sessions[s.session_id].session_number}
FirstLoggedSetOf(we_id) ==
    CHOOSE s \in LastSessionSetsOf(we_id) :
        \A t \in LastSessionSetsOf(we_id) : s.set_number <= t.set_number

\* C14: with history, the target rep count is last_reps + 1 + (last_rir -
\* current target RIR) clamped into [8, 15], last_reps and last_rir being
\* those of the lowest-numbered set of the most recent completed session,
\* and last_rir being the current target RIR when none was recorded.
C14_RepsFollowRirChange ==
    (rec_call.made /\ HistoryOf(rec_call.we_id) # {})
    => LET first == FirstLoggedSetOf(rec_call.we_id)
           last_rir == IF first.rir = None THEN rec_call.current_rir ELSE first.rir
           raw == first.reps + 1 + (last_rir - rec_call.current_rir)
           clamped == IF raw < 8 THEN 8 ELSE IF raw > 15 THEN 15 ELSE raw
       IN  /\ rec_call.target_reps = clamped
           /\ rec_call.rows[1].reps = clamped

\* The spec's example: 12 reps at RIR 2 with the current RIR 2 gives 13, in
\* a last session that holds four sets and with a set already logged in
\* the open session.
C14_Witness ==
    /\ rec_call.made
    /\ HistoryOf(rec_call.we_id) # {}
    /\ Cardinality(LastSessionSetsOf(rec_call.we_id)) = 4
    /\ \E s \in sets : s.we_id = rec_call.we_id /\ sessions[s.session_id].completed = 0
    /\ FirstLoggedSetOf(rec_call.we_id).reps = 12
    /\ FirstLoggedSetOf(rec_call.we_id).rir = 2
    /\ rec_call.current_rir = 2
    /\ rec_call.target_reps = 13

\* C15 as stated: without history the call returns exactly target_sets
\* rows, every row with weight 50.0, reps equal to the exercise's stored
\* target reps, and marked not logged.
C15_NoHistoryDefaults ==
    (rec_call.made /\ HistoryOf(rec_call.we_id) = {})
    => /\ Len(rec_call.rows) = rec_call.target_sets
       /\ \A i \in 1..Len(rec_call.rows) :
              /\ rec_call.rows[i].weight = 5000
              /\ rec_call.rows[i].reps = stored_target_reps(rec_call.we_id)
              /\ rec_call.rows[i].done = FALSE

\* C15 amended: without history the call returns exactly target_sets rows,
\* all marked not logged; the first row's reps are the stored target reps
\* and row i has max(stored target reps - (i - 1), 5) (the stored target
\* reps in every row for a finisher under a deload); every row's weight is
\* 50.0 when no deload is active and 27.5 under a deload.
C15_NoHistoryRows ==
    (rec_call.made /\ HistoryOf(rec_call.we_id) = {})
    => LET deload == rec_call.current_rir >= 4
           target == stored_target_reps(rec_call.we_id)
       IN  /\ Len(rec_call.rows) = rec_call.target_sets
           /\ rec_call.target_sets = target_sets[rec_call.we_id]
           /\ \A i \in 1..Len(rec_call.rows) :
                  /\ rec_call.rows[i].set_number = i
                  /\ rec_call.rows[i].done = FALSE
                  /\ rec_call.rows[i].weight = IF deload THEN 2750 ELSE 5000
                  /\ rec_call.rows[i].reps =
                         IF is_finisher(rec_call.we_id) /\ deload THEN target
                         ELSE IF target - (i - 1) < 5 THEN 5
                         ELSE target - (i - 1)

\* Cable Curl (stored target reps 12) without history and without a
\* deload: four rows of 50.0 with reps 12, 11, 10, 9.
C15_Witness ==
    /\ rec_call.made
    /\ HistoryOf(rec_call.we_id) = {}
    /\ stored_target_reps(rec_call.we_id) = 12
    /\ Len(rec_call.rows) = 4
    /\ rec_call.rows[1].reps = 12
    /\ rec_call.rows[4].reps = 9
    /\ rec_call.rows[4].weight = 5000

OtherwisePrescribed(we_id) ==
    IF HistoryOf(we_id) = {} THEN 5000 ELSE FirstLoggedSetOf(we_id).weight

\* C17 as stated: when the scheduler reports RIR >= 4 every row's weight is
\* max(0.55 * w, 5.0), w being the weight otherwise prescribed; when the
\* RIR is below 4 the multiplier is not applied.  (Weights in 1/10000.)
C17_DeloadWeightExact ==
    rec_call.made
    => LET w == OtherwisePrescribed(rec_call.we_id)
       IN  \A i \in 1..Len(rec_call.rows) :
               IF rec_call.current_rir >= 4
               THEN rec_call.rows[i].weight * 100
                        = (IF 55 * w >= 50000 THEN 55 * w ELSE 50000)
               ELSE rec_call.rows[i].weight - w \in -5..5

\* C17 amended: when the scheduler reports RIR >= 4 every row's weight is
\* max(0.55 * w, 5.0) rounded to one decimal place (a multiple of 0.1 at
\* most 0.05 away from it): w = 100 gives 55.0 and w = 8 gives 5.0; when
\* the RIR is below 4 the multiplier is not applied.
C17_DeloadWeightRounded ==
    rec_call.made
    => LET w == OtherwisePrescribed(rec_call.we_id)
           reduced == IF 55 * w >= 50000 THEN 55 * w ELSE 50000
       IN  \A i \in 1..Len(rec_call.rows) :
               LET weight == rec_call.rows[i].weight
               IN  IF rec_call.current_rir >= 4
                   THEN /\ weight % 10 = 0
                        /\ weight * 100 - reduced \in -500..500
                        /\ w = 10000 => weight = 5500
                        /\ w = 800 => weight = 500
                   ELSE weight - w \in -5..5

\* A deload prescribed on a first set logged at 51: 0.55 * 51 = 28.05, and
\* the rows carry 28.0 or 28.1.
C17_Witness ==
    /\ rec_call.made
    /\ rec_call.current_rir >= 4
    /\ HistoryOf(rec_call.we_id) # {}
    /\ FirstLoggedSetOf(rec_call.we_id).weight = 5100
    /\ Len(rec_call.rows) >= 1
    /\ rec_call.rows[1].weight \in {2800, 2810}

\* C18: except for a finisher during a deload, row i (1-based) has reps
\* max(target_reps - (i - 1), 5): a target of 12 with 4 sets gives 12, 11,
\* 10, 9, with 10 sets no row is below 5, and the reps never increase with
\* the set number.
C18_FatigueModel ==
    (/\ rec_call.made
     /\ ~(is_finisher(rec_call.we_id) /\ rec_call.current_rir >= 4))
    => LET rows == rec_call.rows
           target == rec_call.target_reps
       IN  /\ \A i \in 1..Len(rows) :
                  /\ rows[i].reps = (IF target - (i - 1) >= 5 THEN target - (i - 1) ELSE 5)
                  /\ rows[i].reps >= 5
                  /\ i > 1 => rows[i].reps <= rows[i - 1].reps
           /\ (target = 12 /\ Len(rows) = 4)
              => <<rows[1].reps, rows[2].reps, rows[3].reps, rows[4].reps>>
                     = <<12, 11, 10, 9>>

\* A target of 12 expanded into 10 rows: the eighth row reaches 5 and the
\* last two stay there.
C18_Witness ==
    /\ rec_call.made
    /\ ~is_finisher(rec_call.we_id)
    /\ rec_call.target_reps = 12
    /\ Len(rec_call.rows) = 10
    /\ rec_call.rows[8].reps = 5
    /\ rec_call.rows[10].reps = 5

\* C19: for a finisher while a deload is active (scheduler RIR >= 4) every
\* row has reps equal to target_reps, with no per-set decline, and its
\* weight is the deload weight: the otherwise prescribed weight times 0.55,
\* not below 5.0, to one decimal place.
C19_FinisherDeloadFlat ==
    (rec_call.made /\ is_finisher(rec_call.we_id) /\ rec_call.current_rir >= 4)
    => LET w == OtherwisePrescribed(rec_call.we_id)
           reduced == IF 55 * w >= 50000 THEN 55 * w ELSE 50000
       IN  \A i \in 1..Len(rec_call.rows) :
               /\ rec_call.rows[i].reps = rec_call.target_reps
               /\ rec_call.rows[i].weight * 100 - reduced \in -500..500
               /\ w > 1200 => rec_call.rows[i].weight < w

\* A finisher with a history and three sets prescribed under a deload: the
\* third row has the reps of the first and 55.0 for the 100 logged.
C19_Witness ==
    /\ rec_call.made
    /\ is_finisher(rec_call.we_id)
    /\ rec_call.current_rir >= 4
    /\ HistoryOf(rec_call.we_id) # {}
    /\ FirstLoggedSetOf(rec_call.we_id).weight = 10000
    /\ Len(rec_call.rows) = 3
    /\ rec_call.rows[3].reps = rec_call.rows[1].reps
    /\ rec_call.rows[3].weight = 5500

C21_LastSessionSets ==
    rec_call.made
    => LET we_id == rec_call.we_id
           ret == rec_call.last_session
       IN  IF HistoryOf(we_id) = {} THEN ret = [sid |-> 0, sets |-> << >>]
           ELSE /\ sessions[ret.sid].completed = 1
                /\ \A s \in HistoryOf(we_id) :
                       sessions[s.session_id].session_number
                           <= sessions[ret.sid].session_number
                /\ {ret.sets[i] : i \in 1..Len(ret.sets)}
                       = {s \in sets : s.we_id = we_id /\ s.session_id = ret.sid}
                /\ Len(ret.sets) = Cardinality({s \in sets : s.we_id = we_id
                                                            /\ s.session_id = ret.sid})
                /\ \A i \in 1..(Len(ret.sets) - 1) :
                       ret.sets[i].set_number < ret.sets[i + 1].set_number

\* The exercise's only set lies in the first of five or more completed
\* sessions, the later ones holding sets of another exercise.
C21_Witness ==
    /\ rec_call.made
    /\ Len(sessions) >= 6
    /\ rec_call.last_session.sid = 1
    /\ Len(rec_call.last_session.sets) = 1
    /\ \E s \in sets : s.we_id # rec_call.we_id /\ s.session_id > 1

\* C22: for an exercise whose muscle_group is unset, recommend_weights_and_reps
\* called without a muscle_group uses the fixed RIR 2, never applies the
\* deload multiplier and leaves target_sets unchanged, whatever feedback
\* and history the store holds; get_rir_for_muscle_group with an empty
\* muscle group returns (2, "Moderate Intensity", empty analysis).
C22_UngroupedDefaults ==
    /\ (rec_call.made /\ exercise(rec_call.we_id).muscle_group = NoMuscleGroup)
       => /\ rec_call.current_rir = 2
          /\ \A i \in 1..Len(rec_call.rows) :
                 rec_call.rows[i].weight - OtherwisePrescribed(rec_call.we_id) \in -5..5
          /\ rec_call.target_sets = rec_call.target_sets_before
          /\ target_sets[rec_call.we_id] = rec_call.target_sets_before
    /\ (rir_call.made /\ rir_call.muscle_group = NoMuscleGroup)
       => /\ rir_call.target_rir = 2
          /\ rir_call.phase = <<"Moderate Intensity", 0>>
          /\ rir_call.analysis = EmptyAnalysis

\* Both calls made on a store with a history of the exercise, two high
\* feedback rows under the exercise's name and two under Triceps.
C22_Witness ==
    /\ rec_call.made
    /\ exercise(rec_call.we_id).muscle_group = NoMuscleGroup
    /\ rir_call.made
    /\ HistoryOf(rec_call.we_id) # {}
    /\ LET own == FeedbackOf(exercise(rec_call.we_id).name)
       IN  Len(own) = 2 /\ own[1].soreness = 5 /\ own[2].soreness = 5
    /\ Len(FeedbackOf("Triceps")) = 2

\* C23: for a feedback list of exactly three entries in which every entry
\* has soreness <= 2, pump <= 2 and workload <= 2, analyze_feedback_trend
\* returns status push_harder.
C23_ThreeLowEntriesPushHarder ==
    (/\ trend_out.made
     /\ Len(trend_in) = 3
     /\ \A i \in 1..3 : /\ trend_in[i].soreness \in 1..2
                        /\ trend_in[i].pump \in 1..2
                        /\ trend_in[i].workload \in 1..2)
    => trend_out.ret.status = "push_harder"

\* Three entries at the edge: soreness and workload are 2 in every entry,
\* so the averages do not pass the slight_push test (avg_soreness < 2.0).
C23_Witness ==
    /\ trend_out.made
    /\ Len(trend_in) = 3
    /\ \A i \in 1..3 : /\ trend_in[i].soreness = 2
                       /\ trend_in[i].pump \in 1..2
                       /\ trend_in[i].workload = 2
    /\ trend_out.ret.status = "push_harder"
    /\ trend_out.ret.consecutive_low = 3

\* C24: the weight-increase suggestion flag is set, on row 1 only, exactly
\* when the first set of the last session reached at least the target
\* reps, the target reps are at the maximum of 15, and the last session
\* held at least 4 sets.
C24_SuggestionFlag ==
    rec_call.made
    => LET we_id == rec_call.we_id
           expected == /\ HistoryOf(we_id) # {}
                       /\ FirstLoggedSetOf(we_id).reps >= rec_call.target_reps
                       /\ rec_call.target_reps = 15
                       /\ Cardinality(LastSessionSetsOf(we_id)) >= 4
       IN  \A i \in 1..Len(rec_call.rows) :
               rec_call.rows[i].suggest = (i = 1 /\ expected)

\* C25: recommend_weights_and_reps never creates, deletes or modifies a
\* Set, a Session or a Feedback record; the only persisted field it can
\* change is target_sets of the workout-exercise it was called for.
C25_RecommendFrame ==
    [][(rec_call'.made /\ rec_call' # rec_call)
       => /\ sets' = sets
          /\ sessions' = sessions
          /\ feedback' = feedback
          /\ \A we_id \in WorkoutExerciseIds \ {rec_call'.we_id} :
                 target_sets'[we_id] = target_sets[we_id]]_vars

\* A call that changed target_sets, on a store with logged sets and
\* feedback and a finisher of the same muscle group.
C25_Witness ==
    /\ rec_call.made
    /\ target_sets[rec_call.we_id] # rec_call.target_sets_before
    /\ HistoryOf(rec_call.we_id) # {}
    /\ feedback # << >>
    /\ \E other \in WorkoutExerciseIds \ {rec_call.we_id} :
           exercise(other).muscle_group = exercise(rec_call.we_id).muscle_group

\* C26: analyze_feedback_trend on an empty list returns status maintain
\* with the three averages and both counters 0; it does not fall through
\* to slight_push.
C26_EmptyListMaintain ==
    (trend_out.made /\ trend_in = << >>)
    => /\ trend_out.ret.status = "maintain"
       /\ trend_out.ret.avg_soreness.num = 0
       /\ trend_out.ret.avg_pump.num = 0
       /\ trend_out.ret.avg_workload.num = 0
       /\ trend_out.ret.consecutive_high = 0
       /\ trend_out.ret.consecutive_low = 0

\* The analysis was run on the empty list.
C26_Witness ==
    /\ trend_out.made
    /\ trend_in = << >>
    /\ trend_out.ret.status = "maintain"

\* ------------------------------------------------------------------------
\* Claims about the peak, the bounds of target_sets and the logged sets
\* ------------------------------------------------------------------------

\* N of every call get_rir_for_muscle_group can make on the store is at
\* peak (>= 9).
AtPeak(muscle_group) ==
    \A r \in get_rir_for_muscle_group(sessions, sets, feedback, muscle_group) :
        r.sessions_in_cycle >= 9

\* C27: a call made at peak (N >= 9) returns RIR 0 or RIR 4, and 4 only
\* when the feedback status is deload; and while no deload marker enters the
\* completed history of the muscle group, a muscle group at peak stays at
\* peak as sets are logged, feedback is submitted and sessions are
\* completed, so that no later call returns RIR 1 or 2.
C27_PeakIsAbsorbing ==
    /\ [](  (rir_call.made /\ rir_call.sessions_in_cycle >= 9)
            => /\ rir_call.target_rir \in {RIR_FAILURE, RIR_DELOAD}
               /\ rir_call.target_rir = RIR_DELOAD
                      => rir_call.analysis.status = "deload"  )
    /\ [][ (/\ AtPeak("Triceps")
            /\ DeloadSetsOf("Triceps")' \subseteq DeloadSetsOf("Triceps"))
           => /\ AtPeak("Triceps")'
              /\ \A r \in get_rir_for_muscle_group(sessions', sets', feedback', "Triceps") :
                     r.target_rir \in {RIR_FAILURE, RIR_DELOAD} ]_vars

\* A call made after a further session was completed at peak (N = 10)
\* returned RIR 0.
C27_Witness ==
    /\ rir_call.made
    /\ rir_call.sessions_in_cycle >= 10
    /\ rir_call.target_rir = RIR_FAILURE
    /\ Len(sessions) = MaxPeakSessions

\* C28: the persisted target_sets of a non-finisher exercise that starts in
\* [1, 10] stays in [1, 10] under any sequence of adjustments interleaved
\* with feedback submissions.
C28_TargetSetsBounded ==
    \A we_id \in WorkoutExerciseIds :
        ~is_finisher(we_id) => target_sets[we_id] \in MIN_SETS..MAX_SETS_MAIN

\* An adjustment made at the floor on two feedback rows whose average
\* workload is high while their average soreness is not: no further set
\* is removed.
C28_Witness ==
    /\ rec_call.made
    /\ ~is_finisher(rec_call.we_id)
    /\ rec_call.target_sets_before = MIN_SETS
    /\ target_sets[rec_call.we_id] = MIN_SETS
    /\ Len(feedback) = MaxVolumeFeedback
    /\ feedback[1].soreness = 3
    /\ LET recent == RecentFeedbackOf(exercise(rec_call.we_id).muscle_group)
       IN  /\ recent # << >>
           /\ ScoreSum(recent, "workload") >= 4 * Len(recent)

\* C29: on a store of 1 to 3 feedback entries (scores 1..5 or missing) for
\* which the scheduler's analysis returns status deload, the volume
\* adjustment made on the same entries does not increase target_sets.
C29_NoIncreaseOnDeload ==
    (/\ rir_call.made
     /\ rec_call.made
     /\ rir_call.analysis.status = "deload")
    => /\ rec_call.target_sets <= rec_call.target_sets_before
       /\ target_sets[rec_call.we_id] <= rec_call.target_sets_before

\* Both calls were made on three entries, two of them high-stress by a
\* workload of 3 under a soreness of 4, whose average workload is exactly
\* 2: the status is deload and the average soreness keeps the set from
\* being added.
C29_Witness ==
    /\ rir_call.made
    /\ rec_call.made
    /\ rir_call.analysis.status = "deload"
    /\ Len(feedback) = LOOKBACK_SESSIONS
    /\ ScoreSum(RecentFeedbackOf("Triceps"), "workload") = 2 * LOOKBACK_SESSIONS
    /\ ScoreSum(RecentFeedbackOf("Triceps"), "pump") <= 2 * LOOKBACK_SESSIONS
    /\ rec_call.target_sets = rec_call.target_sets_before

\* The Set rows stored for set set_num of the exercise in the page's session.
LoggedRowsOf(we_id, set_num) ==
    {s \in sets : /\ s.session_id = page_session_id
                  /\ s.we_id = we_id
                  /\ s.set_number = set_num}

\* C30: after any sequence of log_set calls the store holds at most one Set
\* row per (session, workout-exercise, set_number); after a call that
\* stored, that row carries the weight and reps of the call and the target
\* RIR the page holds for the muscle group, and the set is flagged logged;
\* a call with weight <= 0, reps <= 0 or unparsable input leaves the store
\* and the logged flags unchanged.
C30_LogSetUpserts ==
    /\ [](  /\ \A s \in sets, t \in sets :
                   (/\ s.session_id = t.session_id
                    /\ s.we_id = t.we_id
                    /\ s.set_number = t.set_number) => s = t
            /\ (log_call.made /\ log_call.stored)
                   => /\ LoggedRowsOf(log_call.we_id, log_call.set_num) =
                             {[session_id |-> page_session_id,
                               we_id |-> log_call.we_id,
                               set_number |-> log_call.set_num,
                               weight |-> log_call.weight,
                               reps |-> log_call.reps,
                               rir |-> log_set_target_rir(log_call.we_id)]}
                      /\ <<log_call.we_id, log_call.set_num>> \in set_logged  )
    /\ [][ (/\ log_call' # log_call
            /\ log_call'.made
            /\ \/ log_call'.weight = Unparsable \/ log_call'.weight <= 0
               \/ log_call'.reps = Unparsable \/ log_call'.reps <= 0)
           => /\ sets' = sets
              /\ set_logged' = set_logged ]_vars

\* A call with unparsable reps was made for a set that had been logged
\* again, at another weight, after the page had come to show RIR 4.
C30_Witness ==
    /\ log_call.made
    /\ ~log_call.stored
    /\ log_call.reps = Unparsable
    /\ <<log_call.we_id, log_call.set_num>> \in set_logged
    /\ \E s \in LoggedRowsOf(log_call.we_id, log_call.set_num) :
           s.weight = 5250 /\ s.rir = RIR_DELOAD
    /\ \E s \in sets : s.session_id = page_session_id /\ s.rir = RIR_HARD

====
